---- MODULE Spec2Model ----
(***************************************************************************)
(* The orchestrator service of AI-Legal-Assistant: the A2A agent registry  *)
(* and task dispatcher (orchestrator/src/a2a/server.ts), the supervisor's  *)
(* fan-out (agents/supervisor.ts), the Redis bridge (services/redis.ts)    *)
(* and the WebSocket rebroadcast (index.ts).                               *)
(*                                                                         *)
(* Node runs every handler to completion between awaits.  A handler whose  *)
(* synchronous part is modelled in several steps holds `running` until it  *)
(* yields; every other action waits for running = Idle.                    *)
(***************************************************************************)
EXTENDS Integers, Sequences, FiniteSets, TLC

\* ------------------------------------------------------------------ bounds
MaxTasks == 1
MaxTime == 1
MaxOrch == 1
MaxFanout == 2
MaxClients == 2
MaxMessages == 2
MaxSubscribes == 3
MaxInbound == 2

\* --------------------------------------------------------------- constants
Idle == 0
None == "none"

DefaultAgentIds ==
  {"legal-analyst", "research-agent", "loophole-detector",
   "risk-assessor", "contract-reviewer", "supervisor"}

\* ids a caller may name in register / deregister / submit
RegisterIds == {"legal-analyst", "custom-agent"}
SubmitAgentIds == {"legal-analyst", "custom-agent", "nonexistent-agent"}
DefaultBody == [name |-> "default", endpoint |-> "/api/agents/analyze"]
CardBodies ==
  { [name |-> "Custom A", endpoint |-> "/custom/a"],
    [name |-> "Custom B", endpoint |-> None] }

TaskIds == 1..MaxTasks
TaskInputs == {"input", None}
TaskPayloads == {"payload-A", "payload-B"}

\* what the task's axios.post settles with: response.data, or a rejection with
\* error.message and error.response?.data?.error
NoReply == [kind |-> "none", data |-> None, message |-> None, bodyError |-> None]
TaskReplies ==
  { [kind |-> "ok", data |-> p, message |-> None, bodyError |-> None] : p \in TaskPayloads }
  \cup
  { [kind |-> "fail", data |-> None,
     message |-> "Request failed with status code 500", bodyError |-> "backend-error"],
    [kind |-> "fail", data |-> None,
     message |-> "Request failed with status code 502", bodyError |-> None],
    [kind |-> "fail", data |-> None,
     message |-> "timeout of 120000ms exceeded", bodyError |-> None] }

OrchIds == 1..MaxOrch

\* the lock a supervisor or A2A orchestration holds while it runs synchronously
OrchLock(o) == 0 - o

\* bodies of POST /api/agents/orchestrate
SupervisorRequests ==
  { [caseText |-> "case text", analysisType |-> "risk_assessment", caseId |-> None],
    [caseText |-> None, analysisType |-> "compliance_check", caseId |-> "case-7"],
    [caseText |-> "case text", analysisType |-> "unlisted_type", caseId |-> None],
    [caseText |-> None, analysisType |-> "risk_assessment", caseId |-> None],
    [caseText |-> "case text", analysisType |-> "constructor", caseId |-> None],
    [caseText |-> "case text", analysisType |-> None, caseId |-> None] }

\* bodies of POST /api/a2a/orchestrate (an omitted analysisTypes is ['full_analysis'])
A2ARequests ==
  { [caseText |-> "case text", analysisTypes |-> <<"risk_assessment">>, caseId |-> None],
    [caseText |-> "case text", analysisTypes |-> <<"risk_assessment", "case_analysis">>,
     caseId |-> None],
    [caseText |-> None, analysisTypes |-> <<"contract_review", "contract_review">>,
     caseId |-> "case-7"],
    [caseText |-> "case text", analysisTypes |-> <<"full_analysis">>, caseId |-> None],
    [caseText |-> "case text", analysisTypes |-> <<>>, caseId |-> None] }

\* what a backend analysis call settles with: a 2xx payload (analysis or result
\* text and the tools_used names) or a rejection carrying error.message
NoCallReply ==
  [kind |-> "none", analysis |-> None, result |-> None, tools_used |-> <<>>, message |-> None]
OrchReplies ==
  { [kind |-> "ok", analysis |-> "analysis text", result |-> None,
     tools_used |-> <<"rag_search_tool", "risk_assessment_tool">>, message |-> None],
    [kind |-> "ok", analysis |-> None, result |-> "result text",
     tools_used |-> <<"risk_assessment_tool", "risk_assessment_tool">>, message |-> None],
    [kind |-> "fail", analysis |-> None, result |-> None, tools_used |-> <<>>,
     message |-> "Request failed with status code 500"] }

CH_TASK_COMPLETE == "a2a:task_complete"
CH_TASK_PROGRESS == "a2a:task_progress"
CH_ORCH_COMPLETE == "a2a:orchestration_complete"
CH_MESSAGES == "a2a:messages"

\* WebSocket clients, in order of connection (each gets a fresh uuid)
ClientIds == 1..MaxClients

\* frames a client sends: JSON with a type, or text that is not JSON
InboundFrames ==
  { [json |-> TRUE, type |-> "subscribe_task"],
    [json |-> TRUE, type |-> "ping"],
    [json |-> TRUE, type |-> "unsubscribe_task"],
    [json |-> FALSE, type |-> None] }

\* POST /messages requests, in order of arrival (each envelope gets a fresh uuid)
MsgIds == 1..MaxMessages
NoEnvelope ==
  [id |-> 0, fromAgent |-> None, toAgent |-> None, content |-> None, timestamp |-> 0]
NoMsg == [state |-> "none", envelope |-> NoEnvelope, pub |-> None, code |-> 0]
NoHttpResp == [op |-> None, id |-> None, code |-> 0, body |-> {}, error |-> None]

\* ids the read and delete handlers are asked for (0 is never a stored task)
LookupAgentIds == {"legal-analyst", "custom-agent", "nonexistent-agent"}
LookupTaskIds == 0..MaxTasks

\* bodies of POST /messages: sender, recipient, content, and an id and a
\* timestamp the caller may have put in (0: none)
MessageBodies ==
  { [id |-> 0, fromAgent |-> "legal-analyst", toAgent |-> "risk-assessor",
     content |-> "hello", timestamp |-> 0],
    [id |-> 99, fromAgent |-> "nonexistent-agent", toAgent |-> "unknown-agent",
     content |-> "hello", timestamp |-> 77] }

\* RedisService.subscribe calls, in order of arrival; the channels and handlers
\* they name
SubIds == 1..MaxSubscribes
SubChannels == {"channel-a", "channel-b"}
SubHandlers == {"handler-1", "handler-2"}
NoSubCall == [state |-> "none", channel |-> None, handler |-> None]

\* outcomes of the three subscriber.subscribe calls of start-up
SubscribeOutcomes == [1..3 -> BOOLEAN]
AllSubscribed == [k \in 1..3 |-> TRUE]
NoneSubscribed == [k \in 1..3 |-> FALSE]

VARIABLES
  agents,        \* A2AServer.agents: id -> card
  tasks,         \* A2AServer.tasks: id -> A2ATask
  taskPc,        \* where processTask stands for each task
  thrown,        \* the error processTask's try block has thrown, per task
  submitResp,    \* status serialised by res.status(201).json(task), per task
  backendCalls,  \* axios.post calls issued by processTask, per task
  reply,         \* what the backend has answered, per task
  taskPub,       \* outcome of the task's publish on a2a:task_complete
  running,       \* the task whose handler is in its synchronous part, or Idle
  now,           \* the clock read by new Date()
  orch,          \* per orchestration: its kind, request, routed keys, start time
  orchPc,        \* where each orchestration stands
  calls,         \* per orchestration: the backend calls, in launch order
  results,       \* per orchestration: the results object, entries in key order
  toolsUsed,     \* per orchestration: the toolsUsed array
  orchResult,    \* per orchestration: the object built after the join
  cache,         \* the Redis cache: key -> [value, ttl]
  cacheTry,      \* per orchestration: outcome of its cacheSet
  orchPub,       \* per orchestration: outcome of its completion publish
  orchResp,      \* per orchestration: what the HTTP caller got
  listening,     \* start() has run and the server accepts requests
  handlers,      \* RedisService.handlers: channel -> handler list
  subscribed,    \* channels the subscriber connection is subscribed to
  bus,           \* messages the transport has accepted and not yet delivered
  wsClients,     \* keys of the wsClients map
  readyState,    \* readyState of each client's socket
  received,      \* what each client has been sent, in order
  published,     \* history: each accepted publish with the clients open at that moment
  httpResp,      \* the last answer of a read handler or of a 404 branch
  msgs,          \* per POST /messages request: where it stands, its envelope, its answer
  subCalls,      \* per RedisService.subscribe call: where it stands, its channel and handler
  subRequests,   \* per channel: how many times subscriber.subscribe was called
  inbox,         \* messages the subscriber connection has received, in order
  invoked,       \* handler invocations made by the 'message' listener, in order
  wsInbound      \* per client: how many inbound messages its 'message' listener has handled

taskVars == <<tasks, taskPc, thrown, submitResp, backendCalls, reply, taskPub, running>>
regVars == <<agents>>
orchVars == <<orch, orchPc, calls, results, toolsUsed, orchResult, cache, cacheTry,
              orchPub, orchResp>>
bridgeVars == <<listening, handlers, subscribed, wsClients, readyState, received>>
busVars == <<bus, published>>
msgVars == <<httpResp, msgs>>
subVars == <<subCalls, subRequests, inbox, invoked>>
wsVars == <<wsInbound>>
vars == <<agents, tasks, taskPc, thrown, submitResp, backendCalls, reply,
          taskPub, running, now, orch, orchPc, calls, results, toolsUsed, orchResult,
          cache, cacheTry, orchPub, orchResp, listening, handlers, subscribed, bus,
          wsClients, readyState, received, published, httpResp, msgs, subCalls,
          subRequests, inbox, invoked, wsInbound>>

\* ------------------------------------------------------------------- redis

\* Map.set on a function
MapSet(m, k, v) == [x \in (DOMAIN m) \cup {k} |-> IF x = k THEN v ELSE m[x]]

\* Map.delete on a function
MapDelete(m, k) == [x \in (DOMAIN m) \ {k} |-> m[x]]

\* a publish that lets the rejection of publisher.publish through
PublishThrows_Propagates == TRUE

\* RedisService.publish: a rejected publisher.publish is caught and logged
PublishThrows == FALSE

\* Date.prototype.toJSON: a date is serialised as its ISO string
JSONDate(d) == [iso |-> d]

\* JSON.stringify(task): the task with its dates as ISO strings
StringifyTask(task) ==
  [json |-> [task EXCEPT !.createdAt = JSONDate(task.createdAt),
                         !.completedAt = JSONDate(task.completedAt)]]

\* JSON.stringify({ taskId, agentId, status: 'completed', timestamp: new Date() })
StringifyProgress(taskId, agentId, time) ==
  [json |-> [taskId |-> taskId, agentId |-> agentId, status |-> "completed",
             timestamp |-> JSONDate(time)]]

\* JSON.stringify({ taskId, processingTime, agentCount })
StringifyCompletion(taskId, processingTime, agentCount) ==
  [json |-> [taskId |-> taskId, processingTime |-> processingTime,
             agentCount |-> agentCount]]

\* JSON.parse(message): the object, its dates still ISO strings
JSONParse(text) == text.json

\* the transport hands an accepted message to the subscriber connection only
\* when that connection is subscribed to the channel
BusAfterPublish(channel, text, ok) ==
  IF ok /\ channel \in subscribed
    THEN Append(bus, [channel |-> channel, message |-> text])
    ELSE bus

\* the clients whose socket is open
OpenClients == {c \in DOMAIN readyState : readyState[c] = "OPEN"}

PublishedAfter(channel, text, ok) ==
  IF ok
    THEN published \cup {[channel |-> channel, message |-> text, audience |-> OpenClients]}
    ELSE published

\* RedisService.subscribe on st = [handlers, subscribed]: the first call for a
\* channel creates its list and awaits subscriber.subscribe, whose rejection
\* skips the push
RedisSubscribe(st, channel, handler, ok) ==
  IF channel \notin DOMAIN st.handlers
    THEN IF ok
           THEN [handlers |-> MapSet(st.handlers, channel, <<handler>>),
                 subscribed |-> st.subscribed \cup {channel}]
           ELSE [handlers |-> MapSet(st.handlers, channel, <<>>),
                 subscribed |-> st.subscribed]
    ELSE [handlers |-> MapSet(st.handlers, channel, Append(st.handlers[channel], handler)),
          subscribed |-> st.subscribed]

\* ---------------------------------------------------------------- subscribe

\* a check of the transport's subscriptions in place of the handler map
HasChannel_Subscribed(channel) == channel \in subscribed

\* this.handlers.has(channel)
HasChannel(channel) == channel \in DOMAIN handlers

\* RedisService.subscribe up to its await: the first call for a channel creates
\* the empty list and calls subscriber.subscribe; any other call pushes at once
SubscribeBegin(k, channel, handler) ==
  /\ running = Idle
  /\ k \in SubIds
  /\ k = Cardinality({j \in SubIds : subCalls[j].state # "none"}) + 1
  /\ IF ~HasChannel(channel)
       THEN /\ handlers' = MapSet(handlers, channel, <<>>)
            /\ subRequests' = [subRequests EXCEPT ![channel] = @ + 1]
            /\ subCalls' = [subCalls EXCEPT ![k] =
                 [state |-> "awaiting", channel |-> channel, handler |-> handler]]
       ELSE /\ handlers' = MapSet(handlers, channel, Append(handlers[channel], handler))
            /\ subCalls' = [subCalls EXCEPT ![k] =
                 [state |-> "done", channel |-> channel, handler |-> handler]]
            /\ UNCHANGED subRequests
  /\ UNCHANGED <<wsVars, msgVars, inbox, invoked, listening, subscribed, wsClients, readyState,
                 received, busVars, regVars, taskVars, now, orchVars>>

\* a subscribe whose catch block forgets the channel, so that a later call asks
\* the transport again
SubscribeSettle_Forget(k, ok) ==
  /\ running = Idle
  /\ k \in SubIds
  /\ subCalls[k].state = "awaiting"
  /\ IF ok
       THEN /\ subscribed' = subscribed \cup {subCalls[k].channel}
            /\ handlers' = MapSet(handlers, subCalls[k].channel,
                                  Append(handlers[subCalls[k].channel], subCalls[k].handler))
            /\ subCalls' = [subCalls EXCEPT ![k].state = "done"]
       ELSE /\ subCalls' = [subCalls EXCEPT ![k].state = "failed"]
            /\ handlers' = MapDelete(handlers, subCalls[k].channel)
            /\ UNCHANGED subscribed
  /\ UNCHANGED <<wsVars, msgVars, subRequests, inbox, invoked, listening, wsClients, readyState,
                 received, busVars, regVars, taskVars, now, orchVars>>

\* the awaited subscriber.subscribe settles: the handler is pushed, or the
\* rejection is caught and logged
SubscribeSettle(k, ok) ==
  /\ running = Idle
  /\ k \in SubIds
  /\ subCalls[k].state = "awaiting"
  /\ IF ok
       THEN /\ subscribed' = subscribed \cup {subCalls[k].channel}
            /\ handlers' = MapSet(handlers, subCalls[k].channel,
                                  Append(handlers[subCalls[k].channel], subCalls[k].handler))
            /\ subCalls' = [subCalls EXCEPT ![k].state = "done"]
       ELSE /\ subCalls' = [subCalls EXCEPT ![k].state = "failed"]
            /\ UNCHANGED <<subscribed, handlers>>
  /\ UNCHANGED <<wsVars, msgVars, subRequests, inbox, invoked, listening, wsClients, readyState,
                 received, busVars, regVars, taskVars, now, orchVars>>

\* channelHandlers.forEach((handler) => handler(message)), as the calls made
Invocations(hs, channel, text) ==
  [i \in 1..Len(hs) |-> [handler |-> hs[i], channel |-> channel, message |-> text]]

\* subscriber.on('message'): a message arrives on a subscribed channel and the
\* listener calls that channel's handlers in order
SubscriberMessage(channel, text) ==
  /\ running = Idle
  /\ channel \in subscribed
  /\ Len(inbox) < MaxMessages
  /\ inbox' = Append(inbox, [channel |-> channel, message |-> text])
  /\ invoked' = invoked \o
       Invocations(IF channel \in DOMAIN handlers THEN handlers[channel] ELSE <<>>,
                   channel, text)
  /\ UNCHANGED <<wsVars, msgVars, subCalls, subRequests, bridgeVars, busVars, regVars, taskVars,
                 now, orchVars>>

\* ---------------------------------------------------------------- registry

\* registerDefaultAgents: the six default cards, keyed by id
registerDefaultAgents ==
  [id \in DefaultAgentIds |-> [id |-> id, body |-> DefaultBody]]

\* a card that loses its endpoint on the way into the registry
AgentCard_NoEndpoint(id, body) == [id |-> id, body |-> [body EXCEPT !.endpoint = None]]

\* { ...req.body, id: req.body.id || uuidv4() } for a body that names its id
AgentCard(id, body) == [id |-> id, body |-> body]

\* a registration that keeps the fields the new payload leaves out
RegisterAgent_Merge(id, body) ==
  /\ listening
  /\ running = Idle
  /\ agents' = MapSet(agents, id,
       IF id \in DOMAIN agents /\ body.endpoint = None
         THEN AgentCard(id, [body EXCEPT !.endpoint = agents[id].body.endpoint])
         ELSE AgentCard(id, body))
  /\ UNCHANGED <<wsVars, msgVars, subVars, bridgeVars, busVars, taskVars, now, orchVars>>

\* POST /agents/register with req.body.id given (an omitted id is a fresh uuid)
RegisterAgent(id, body) ==
  /\ listening
  /\ running = Idle
  /\ agents' = MapSet(agents, id, AgentCard(id, body))
  /\ UNCHANGED <<wsVars, msgVars, subVars, bridgeVars, busVars, taskVars, now, orchVars>>

\* a deregistration that also drops the settled tasks addressed to the agent
DeregisterAgent_Cascade(id) ==
  /\ listening
  /\ running = Idle
  /\ id \in DOMAIN agents
  /\ agents' = MapDelete(agents, id)
  /\ tasks' = [t \in {u \in DOMAIN tasks : ~(tasks[u].agentId = id /\ taskPc[u] = "settled")}
                 |-> tasks[t]]
  /\ UNCHANGED <<wsVars, msgVars, subVars, bridgeVars, busVars, taskPc, thrown, submitResp,
                 backendCalls, reply, taskPub, running, now, orchVars>>

\* DELETE /agents/:id of a registered id (an absent id answers 404, no change)
DeregisterAgent(id) ==
  /\ listening
  /\ running = Idle
  /\ id \in DOMAIN agents
  /\ agents' = MapDelete(agents, id)
  /\ UNCHANGED <<wsVars, msgVars, subVars, bridgeVars, busVars, taskVars, now, orchVars>>

\* GET /agents: the cards of the registry
ListAgents ==
  /\ listening
  /\ running = Idle
  /\ httpResp' = [op |-> "GET /agents", id |-> None, code |-> 200,
                  body |-> {agents[a] : a \in DOMAIN agents}, error |-> None]
  /\ UNCHANGED <<wsVars, msgs, subVars, bridgeVars, busVars, regVars, taskVars, now, orchVars>>

\* GET /agents/:id: the card, or 404
GetAgent(id) ==
  /\ listening
  /\ running = Idle
  /\ httpResp' = IF id \in DOMAIN agents
                   THEN [op |-> "GET /agents/:id", id |-> id, code |-> 200,
                         body |-> {agents[id]}, error |-> None]
                   ELSE [op |-> "GET /agents/:id", id |-> id, code |-> 404,
                         body |-> {}, error |-> "Agent not found"]
  /\ UNCHANGED <<wsVars, msgs, subVars, bridgeVars, busVars, regVars, taskVars, now, orchVars>>

\* DELETE /agents/:id of an id that is not registered: 404
DeregisterAgentNotFound(id) ==
  /\ listening
  /\ running = Idle
  /\ id \notin DOMAIN agents
  /\ httpResp' = [op |-> "DELETE /agents/:id", id |-> id, code |-> 404,
                  body |-> {}, error |-> "Agent not found"]
  /\ UNCHANGED <<wsVars, msgs, subVars, bridgeVars, busVars, regVars, taskVars, now, orchVars>>

\* ------------------------------------------------------------------- tasks

AgentNotFound(agentId) == <<"Agent not found: ", agentId>>
InputTypeError == <<"Cannot read properties of undefined (reading 'caseId')">>

\* error.response?.data?.error || error.message
TaskErrorOf(err) == IF err.bodyError # None THEN <<err.bodyError>> ELSE <<err.message>>

\* a dispatcher that does not check the lookup's result
AgentKnown_Unchecked(agentId) == TRUE

\* this.agents.get(task.agentId) finds a card
AgentKnown(agentId) == agentId \in DOMAIN agents

\* POST /tasks, lines 126-135: the task is built pending and stored
SubmitTask(t, agentId, input) ==
  /\ listening
  /\ running = Idle
  /\ t = Cardinality(DOMAIN tasks) + 1
  /\ t \in TaskIds
  /\ tasks' = MapSet(tasks, t,
       [id |-> t, agentId |-> agentId, input |-> input, status |-> "pending",
        result |-> None, error |-> <<>>, createdAt |-> now, completedAt |-> -1])
  /\ taskPc' = [taskPc EXCEPT ![t] = "created"]
  /\ running' = t
  /\ UNCHANGED <<wsVars, msgVars, subVars, bridgeVars, busVars, regVars, thrown, submitResp, backendCalls, reply, taskPub, now, orchVars>>

\* processTask up to its first await, called from the submit handler
ProcessTaskBegin(t) ==
  /\ running = t
  /\ taskPc[t] = "created"
  /\ tasks' = [tasks EXCEPT ![t].status = "in_progress"]
  /\ IF ~AgentKnown(tasks[t].agentId)
       THEN /\ thrown' = [thrown EXCEPT ![t] = AgentNotFound(tasks[t].agentId)]
            /\ taskPc' = [taskPc EXCEPT ![t] = "throwing"]
            /\ UNCHANGED backendCalls
       ELSE IF tasks[t].input = None
         THEN /\ thrown' = [thrown EXCEPT ![t] = InputTypeError]
              /\ taskPc' = [taskPc EXCEPT ![t] = "throwing"]
              /\ UNCHANGED backendCalls
         ELSE /\ backendCalls' = [backendCalls EXCEPT ![t] = @ + 1]
              /\ taskPc' = [taskPc EXCEPT ![t] = "awaiting_backend"]
              /\ UNCHANGED thrown
  /\ UNCHANGED <<wsVars, msgVars, subVars, bridgeVars, busVars, regVars, submitResp, reply, taskPub, running, now, orchVars>>

\* a catch block that puts the task back in the queue instead of failing it
ProcessTaskCatch_Requeue(t) ==
  /\ running = t
  /\ taskPc[t] = "throwing"
  /\ tasks' = [tasks EXCEPT ![t].status = "pending", ![t].error = thrown[t]]
  /\ taskPc' = [taskPc EXCEPT ![t] = "settled"]
  /\ running' = IF submitResp[t] = None THEN t ELSE Idle
  /\ UNCHANGED <<wsVars, msgVars, subVars, bridgeVars, busVars, regVars, thrown, submitResp, backendCalls, reply, taskPub, now, orchVars>>

\* a catch block that sends a rejected backend call once more
ProcessTaskCatch_Retry(t) ==
  /\ running = t
  /\ taskPc[t] = "throwing"
  /\ IF backendCalls[t] = 1
       THEN /\ taskPc' = [taskPc EXCEPT ![t] = "awaiting_backend"]
            /\ backendCalls' = [backendCalls EXCEPT ![t] = 2]
            /\ reply' = [reply EXCEPT ![t] = NoReply]
            /\ UNCHANGED tasks
       ELSE /\ tasks' = [tasks EXCEPT ![t].status = "failed", ![t].error = thrown[t]]
            /\ taskPc' = [taskPc EXCEPT ![t] = "settled"]
            /\ UNCHANGED <<backendCalls, reply>>
  /\ running' = IF submitResp[t] = None THEN t ELSE Idle
  /\ UNCHANGED <<wsVars, msgVars, subVars, bridgeVars, busVars, regVars, thrown, submitResp,
                 taskPub, now, orchVars>>

\* a catch block that also takes the task's agent out of the registry
ProcessTaskCatch_Evict(t) ==
  /\ running = t
  /\ taskPc[t] = "throwing"
  /\ tasks' = [tasks EXCEPT ![t].status = "failed", ![t].error = thrown[t]]
  /\ taskPc' = [taskPc EXCEPT ![t] = "settled"]
  /\ running' = IF submitResp[t] = None THEN t ELSE Idle
  /\ agents' = MapDelete(agents, tasks[t].agentId)
  /\ UNCHANGED <<wsVars, msgVars, subVars, bridgeVars, busVars, thrown, submitResp, backendCalls,
                 reply, taskPub, now, orchVars>>

\* a catch block that announces the failed task on the completion channel
ProcessTaskCatch_Announce(t) ==
  /\ running = t
  /\ taskPc[t] = "throwing"
  /\ tasks' = [tasks EXCEPT ![t].status = "failed", ![t].error = thrown[t]]
  /\ taskPc' = [taskPc EXCEPT ![t] = "settled"]
  /\ running' = IF submitResp[t] = None THEN t ELSE Idle
  /\ bus' = BusAfterPublish(CH_TASK_COMPLETE, StringifyTask(tasks'[t]), TRUE)
  /\ published' = PublishedAfter(CH_TASK_COMPLETE, StringifyTask(tasks'[t]), TRUE)
  /\ UNCHANGED <<wsVars, msgVars, subVars, bridgeVars, regVars, thrown, submitResp,
                 backendCalls, reply, taskPub, now, orchVars>>

\* the catch block of processTask
ProcessTaskCatch(t) ==
  /\ running = t
  /\ taskPc[t] = "throwing"
  /\ tasks' = [tasks EXCEPT ![t].status = "failed", ![t].error = thrown[t]]
  /\ taskPc' = [taskPc EXCEPT ![t] = "settled"]
  /\ running' = IF submitResp[t] = None THEN t ELSE Idle
  /\ UNCHANGED <<wsVars, msgVars, subVars, bridgeVars, busVars, regVars, thrown, submitResp, backendCalls, reply, taskPub, now, orchVars>>

\* res.status(201).json(task): the task as it is when processTask has yielded
SubmitRespond(t) ==
  /\ running = t
  /\ submitResp[t] = None
  /\ taskPc[t] \in {"awaiting_backend", "settled"}
  /\ submitResp' = [submitResp EXCEPT ![t] = tasks[t].status]
  /\ running' = Idle
  /\ UNCHANGED <<wsVars, msgVars, subVars, bridgeVars, busVars, regVars, tasks, taskPc, thrown, backendCalls, reply, taskPub, now, orchVars>>

\* the backend answers the task's axios.post (2xx with a payload, or a rejection)
BackendReply(t, r) ==
  /\ running = Idle
  /\ taskPc[t] = "awaiting_backend"
  /\ reply[t] = NoReply
  /\ reply' = [reply EXCEPT ![t] = r]
  /\ UNCHANGED <<wsVars, msgVars, subVars, bridgeVars, busVars, regVars, tasks, taskPc, thrown, submitResp, backendCalls, taskPub,
                 running, now, orchVars>>

\* a completion that drops the payload
CompletedTask_NoResult(task, data, time) ==
  [task EXCEPT !.status = "completed", !.completedAt = time]

\* lines 209-211: the task once the backend's payload is in
CompletedTask(task, data, time) ==
  [task EXCEPT !.result = data, !.status = "completed", !.completedAt = time]

\* a processTask that looks the agent up again when the backend has answered
ProcessTaskResume_Relookup(t) ==
  /\ running = Idle
  /\ taskPc[t] = "awaiting_backend"
  /\ reply[t] # NoReply
  /\ IF reply[t].kind = "ok" /\ AgentKnown(tasks[t].agentId)
       THEN /\ tasks' = [tasks EXCEPT ![t] = CompletedTask(tasks[t], reply[t].data, now)]
            /\ taskPc' = [taskPc EXCEPT ![t] = "publishing"]
            /\ taskPub' = [taskPub EXCEPT ![t] = "pending"]
            /\ UNCHANGED <<thrown, running>>
       ELSE /\ thrown' = [thrown EXCEPT ![t] =
                 IF reply[t].kind = "ok" THEN AgentNotFound(tasks[t].agentId)
                 ELSE TaskErrorOf(reply[t])]
            /\ taskPc' = [taskPc EXCEPT ![t] = "throwing"]
            /\ running' = t
            /\ UNCHANGED <<tasks, taskPub>>
  /\ UNCHANGED <<wsVars, msgVars, subVars, bridgeVars, busVars, regVars, reply, submitResp,
                 backendCalls, now, orchVars>>

\* processTask resumes after the await of axios.post, up to the await of redis.publish
\* or, on a rejection, into the catch block
ProcessTaskResume(t) ==
  /\ running = Idle
  /\ taskPc[t] = "awaiting_backend"
  /\ reply[t] # NoReply
  /\ IF reply[t].kind = "ok"
       THEN /\ tasks' = [tasks EXCEPT ![t] = CompletedTask(tasks[t], reply[t].data, now)]
            /\ taskPc' = [taskPc EXCEPT ![t] = "publishing"]
            /\ taskPub' = [taskPub EXCEPT ![t] = "pending"]
            /\ UNCHANGED <<thrown, running>>
       ELSE /\ thrown' = [thrown EXCEPT ![t] = TaskErrorOf(reply[t])]
            /\ taskPc' = [taskPc EXCEPT ![t] = "throwing"]
            /\ running' = t
            /\ UNCHANGED <<tasks, taskPub>>
  /\ UNCHANGED <<wsVars, msgVars, subVars, bridgeVars, busVars, regVars, reply, submitResp, backendCalls, now, orchVars>>

\* the awaited redis.publish of processTask settles
TaskPublishSettle(t, ok) ==
  /\ running = Idle
  /\ taskPc[t] = "publishing"
  /\ taskPub' = [taskPub EXCEPT ![t] = IF ok THEN "ok" ELSE "failed"]
  /\ IF ~ok /\ PublishThrows
       THEN /\ thrown' = [thrown EXCEPT ![t] = <<"publish failed">>]
            /\ taskPc' = [taskPc EXCEPT ![t] = "throwing"]
            /\ running' = t
       ELSE /\ taskPc' = [taskPc EXCEPT ![t] = "settled"]
            /\ UNCHANGED <<thrown, running>>
  /\ bus' = BusAfterPublish(CH_TASK_COMPLETE, StringifyTask(tasks[t]), ok)
  /\ published' = PublishedAfter(CH_TASK_COMPLETE, StringifyTask(tasks[t]), ok)
  /\ UNCHANGED <<wsVars, msgVars, subVars, bridgeVars, regVars, tasks, submitResp, backendCalls, reply, now, orchVars>>

\* GET /tasks: the stored tasks
ListTasks ==
  /\ listening
  /\ running = Idle
  /\ httpResp' = [op |-> "GET /tasks", id |-> None, code |-> 200,
                  body |-> {tasks[t] : t \in DOMAIN tasks}, error |-> None]
  /\ UNCHANGED <<wsVars, msgs, subVars, bridgeVars, busVars, regVars, taskVars, now, orchVars>>

\* a read that hands a settled task out and forgets it
GetTask_Evict(id) ==
  /\ listening
  /\ running = Idle
  /\ httpResp' = IF id \in DOMAIN tasks
                   THEN [op |-> "GET /tasks/:id", id |-> None, code |-> 200,
                         body |-> {tasks[id]}, error |-> None]
                   ELSE [op |-> "GET /tasks/:id", id |-> None, code |-> 404,
                         body |-> {}, error |-> "Task not found"]
  /\ tasks' = [t \in {u \in DOMAIN tasks : ~(u = id /\ taskPc[u] = "settled")} |-> tasks[t]]
  /\ UNCHANGED <<wsVars, msgs, subVars, bridgeVars, busVars, regVars, taskPc, thrown, submitResp,
                 backendCalls, reply, taskPub, running, now, orchVars>>

\* GET /tasks/:id: the task, or 404
GetTask(id) ==
  /\ listening
  /\ running = Idle
  /\ httpResp' = IF id \in DOMAIN tasks
                   THEN [op |-> "GET /tasks/:id", id |-> None, code |-> 200,
                         body |-> {tasks[id]}, error |-> None]
                   ELSE [op |-> "GET /tasks/:id", id |-> None, code |-> 404,
                         body |-> {}, error |-> "Task not found"]
  /\ UNCHANGED <<wsVars, msgs, subVars, bridgeVars, busVars, regVars, taskVars, now, orchVars>>

\* ---------------------------------------------------------------- messages

\* an envelope in which the caller's id and timestamp win
StampedEnvelope_CallerWins(body, id, time) ==
  [body EXCEPT !.id = IF body.id # 0 THEN body.id ELSE id,
               !.timestamp = IF body.timestamp # 0 THEN body.timestamp ELSE time]

\* { ...req.body, id: uuidv4(), timestamp: new Date() }
StampedEnvelope(body, id, time) == [body EXCEPT !.id = id, !.timestamp = time]

\* JSON.stringify(message): the envelope with its date as an ISO string
StringifyMessage(envelope) ==
  [json |-> [envelope EXCEPT !.timestamp = JSONDate(envelope.timestamp)]]

\* POST /messages up to its await: stamp the envelope and call redis.publish
SendMessage(m, body) ==
  /\ listening
  /\ running = Idle
  /\ m \in MsgIds
  /\ m = Cardinality({j \in MsgIds : msgs[j].state # "none"}) + 1
  /\ msgs' = [msgs EXCEPT ![m] =
       [state |-> "publishing", envelope |-> StampedEnvelope(body, m, now),
        pub |-> "pending", code |-> 0]]
  /\ UNCHANGED <<wsVars, httpResp, subVars, bridgeVars, busVars, regVars, taskVars, now, orchVars>>

\* the awaited redis.publish settles and the handler answers 201 with the envelope
MessagePublishSettle(m, ok) ==
  /\ running = Idle
  /\ m \in MsgIds
  /\ msgs[m].state = "publishing"
  /\ msgs' = [msgs EXCEPT ![m] =
       IF ~ok /\ PublishThrows
         THEN [@ EXCEPT !.state = "rejected", !.pub = "failed"]
         ELSE [@ EXCEPT !.state = "returned", !.pub = IF ok THEN "ok" ELSE "failed",
                        !.code = 201]]
  /\ bus' = BusAfterPublish(CH_MESSAGES, StringifyMessage(msgs[m].envelope), ok)
  /\ published' = PublishedAfter(CH_MESSAGES, StringifyMessage(msgs[m].envelope), ok)
  /\ UNCHANGED <<wsVars, httpResp, subVars, bridgeVars, regVars, taskVars, now, orchVars>>

\* -------------------------------------------------------------- supervisor

routingMap ==
  ( "full_analysis" :>
      <<"legal-analyst", "research-agent", "loophole-detector", "risk-assessor">>
    @@ "case_analysis" :> <<"legal-analyst", "research-agent">>
    @@ "loophole_detection" :> <<"loophole-detector", "research-agent">>
    @@ "risk_assessment" :> <<"risk-assessor", "legal-analyst">>
    @@ "contract_review" :> <<"contract-reviewer", "risk-assessor">>
    @@ "compliance_check" :> <<"contract-reviewer">>
    @@ "legal_research" :> <<"research-agent">>
    @@ "precedent_search" :> <<"research-agent">> )

\* names every object literal inherits from Object.prototype
ObjectPrototypeKeys == {"constructor", "toString", "__proto__"}
InheritedMember == <<"[Object.prototype member]">>

\* a routing that sends every request to the fallback agent
routeTask_Fallback(analysisType) == <<"legal-analyst">>

\* routeTask: routingMap[analysisType] || ['legal-analyst']
routeTask(analysisType) ==
  IF analysisType \in DOMAIN routingMap THEN routingMap[analysisType]
  ELSE IF analysisType \in ObjectPrototypeKeys THEN InheritedMember
  ELSE <<"legal-analyst">>

\* the body of the backend analysis call
AnalysisPayload(analysisType, caseText, caseId) ==
  IF caseId # None
    THEN [analysis_type |-> analysisType, case_id |-> caseId, input_text |-> None]
    ELSE [analysis_type |-> analysisType, case_id |-> None, input_text |-> caseText]

NoOrch ==
  [kind |-> None, analysisType |-> None, keys |-> <<>>, startTime |-> 0]
NoCall ==
  [state |-> "new", request |-> None, reply |-> NoCallReply, progress |-> None,
   progressAt |-> 0]
NoNarrative ==
  [title |-> None, total |-> 0, successful |-> 0, failed |-> 0,
   sections |-> <<>>, hasFailedSection |-> FALSE, failedSection |-> <<>>]
NoResult ==
  [taskId |-> 0, agents |-> <<>>, results |-> <<>>, aggregatedAnalysis |-> NoNarrative,
   processingTime |-> 0, toolsUsed |-> <<>>]
NoResp == [code |-> 0, body |-> NoResult]

\* results[key] = value on an object whose keys keep insertion order
ObjectSet(obj, key, value) ==
  IF \E i \in 1..Len(obj) : obj[i].key = key
    THEN [i \in 1..Len(obj) |->
            IF obj[i].key = key THEN [key |-> key, value |-> value] ELSE obj[i]]
    ELSE Append(obj, [key |-> key, value |-> value])

ObjectKeys(obj) == {obj[i].key : i \in 1..Len(obj)}
ObjectGet(obj, key) == (CHOOSE i \in 1..Len(obj) : obj[i].key = key)

\* the slot of a successful call: response.data
OkSlot(r) ==
  [error |-> None, status |-> None, analysis |-> r.analysis, result |-> r.result,
   tools_used |-> r.tools_used]

\* a catch that records the message only
FailedSlot_NoStatus(message) ==
  [error |-> message, status |-> None, analysis |-> None, result |-> None,
   tools_used |-> <<>>]

\* the slot of a failed call in orchestrate: { error: error.message, status: 'failed' }
FailedSlot(message) ==
  [error |-> message, status |-> "failed", analysis |-> None, result |-> None,
   tools_used |-> <<>>]

\* a collection that pushes every reported name
CollectTools_All(used, names) == used \o names

\* lines 90-96: push every tool name not yet in toolsUsed
RECURSIVE CollectTools(_, _)
CollectTools(used, names) ==
  IF names = <<>> THEN used
  ELSE CollectTools(
         IF \E i \in 1..Len(used) : used[i] = Head(names) THEN used
         ELSE Append(used, Head(names)),
         Tail(names))

\* a truthy result.error
HasError(entry) == entry.value.error # None
HasNoError(entry) == ~HasError(entry)

\* lines 173-185: the rendered analysis or result of one successful agent
SectionBody(value) ==
  IF value.analysis # None THEN <<value.analysis>>
  ELSE IF value.result # None THEN <<value.result>>
  ELSE <<>>

\* an aggregation that walks the results in routing order
aggregateResults_RoutingOrder(res, analysisType) ==
  LET order == SelectSeq(routeTask(analysisType),
                         LAMBDA k : \E i \in 1..Len(res) : res[i].key = k)
      sorted == [i \in 1..Len(order) |-> res[ObjectGet(res, order[i])]]
      successfulAgents == SelectSeq(sorted, HasNoError)
      failedAgents == SelectSeq(sorted, HasError)
  IN [title |-> analysisType,
      total |-> Len(res),
      successful |-> Len(successfulAgents),
      failed |-> Len(failedAgents),
      sections |-> [i \in 1..Len(successfulAgents) |->
                      [agentId |-> successfulAgents[i].key,
                       body |-> SectionBody(successfulAgents[i].value)]],
      hasFailedSection |-> Len(failedAgents) > 0,
      failedSection |-> [i \in 1..Len(failedAgents) |->
                           [agentId |-> failedAgents[i].key,
                            error |-> failedAgents[i].value.error]]]

\* an aggregation that renders a section for every entry of results
aggregateResults_SectionPerEntry(res, analysisType) ==
  LET successfulAgents == SelectSeq(res, HasNoError)
      failedAgents == SelectSeq(res, HasError)
  IN [title |-> analysisType,
      total |-> Len(res),
      successful |-> Len(successfulAgents),
      failed |-> Len(failedAgents),
      sections |-> [i \in 1..Len(res) |->
                      [agentId |-> res[i].key, body |-> SectionBody(res[i].value)]],
      hasFailedSection |-> Len(failedAgents) > 0,
      failedSection |-> [i \in 1..Len(failedAgents) |->
                           [agentId |-> failedAgents[i].key,
                            error |-> failedAgents[i].value.error]]]

\* aggregateResults: header counts, one section per successful agent, and the
\* Failed Agents section when there is a failure
aggregateResults(res, analysisType) ==
  LET successfulAgents == SelectSeq(res, HasNoError)
      failedAgents == SelectSeq(res, HasError)
  IN [title |-> analysisType,
      total |-> Len(res),
      successful |-> Len(successfulAgents),
      failed |-> Len(failedAgents),
      sections |-> [i \in 1..Len(successfulAgents) |->
                      [agentId |-> successfulAgents[i].key,
                       body |-> SectionBody(successfulAgents[i].value)]],
      hasFailedSection |-> Len(failedAgents) > 0,
      failedSection |-> [i \in 1..Len(failedAgents) |->
                           [agentId |-> failedAgents[i].key,
                            error |-> failedAgents[i].value.error]]]

\* no orchestration is between its request and its response
NoOrchActive == \A p \in OrchIds : orchPc[p] \in {"none", "returned"}

\* POST /api/agents/orchestrate without caseText and caseId: 400
SupervisorReject(o, req) ==
  /\ listening
  /\ running = Idle
  /\ NoOrchActive
  /\ o = Cardinality({p \in OrchIds : orchPc[p] # "none"}) + 1
  /\ o \in OrchIds
  /\ req.caseText = None /\ req.caseId = None
  /\ orch' = [orch EXCEPT ![o] = [NoOrch EXCEPT !.kind = "rejected"]]
  /\ orchPc' = [orchPc EXCEPT ![o] = "returned"]
  /\ orchResp' = [orchResp EXCEPT ![o] = [code |-> 400, body |-> NoResult]]
  /\ UNCHANGED <<wsVars, msgVars, subVars, bridgeVars, busVars, regVars, taskVars, now, calls, results, toolsUsed, orchResult, cache,
                 cacheTry, orchPub>>

\* an orchestrate that consults only the routed agents found in the registry
OrchestrateBegin_Registered(o, req) ==
  /\ listening
  /\ running = Idle
  /\ NoOrchActive
  /\ o = Cardinality({p \in OrchIds : orchPc[p] # "none"}) + 1
  /\ o \in OrchIds
  /\ ~(req.caseText = None /\ req.caseId = None)
  /\ LET analysisType == IF req.analysisType = None THEN "full_analysis"
                         ELSE req.analysisType
         assignedAgents == SelectSeq(routeTask(analysisType),
                                     LAMBDA a : a \in DOMAIN agents)
     IN /\ Len(assignedAgents) <= MaxFanout
        /\ orch' = [orch EXCEPT ![o] =
             [kind |-> "supervisor", analysisType |-> analysisType,
              keys |-> assignedAgents, startTime |-> now]]
        /\ orchPc' = [orchPc EXCEPT ![o] =
             IF assignedAgents = <<>> THEN "awaiting_all" ELSE "launching"]
        /\ calls' = [calls EXCEPT ![o] =
             [i \in 1..Len(assignedAgents) |->
                [NoCall EXCEPT !.request =
                   AnalysisPayload(analysisType,
                     IF req.caseText = None THEN "" ELSE req.caseText,
                     req.caseId)]]]
        /\ running' = IF assignedAgents = <<>> THEN Idle ELSE OrchLock(o)
  /\ UNCHANGED <<wsVars, msgVars, subVars, bridgeVars, busVars, regVars, tasks, taskPc, thrown,
                 submitResp, backendCalls, reply, taskPub, now, results, toolsUsed,
                 orchResult, cache, cacheTry, orchPub, orchResp>>

\* POST /api/agents/orchestrate -> orchestrate, lines 61-70: route the request
OrchestrateBegin(o, req) ==
  /\ listening
  /\ running = Idle
  /\ NoOrchActive
  /\ o = Cardinality({p \in OrchIds : orchPc[p] # "none"}) + 1
  /\ o \in OrchIds
  /\ ~(req.caseText = None /\ req.caseId = None)
  /\ LET analysisType == IF req.analysisType = None THEN "full_analysis"
                         ELSE req.analysisType
         assignedAgents == routeTask(analysisType)
     IN /\ Len(assignedAgents) <= MaxFanout
        /\ IF assignedAgents = InheritedMember
          THEN \* assignedAgents.join is not a function: the handler answers 500
               /\ orch' = [orch EXCEPT ![o] =
                    [kind |-> "supervisor", analysisType |-> analysisType,
                     keys |-> <<>>, startTime |-> now]]
               /\ orchPc' = [orchPc EXCEPT ![o] = "returned"]
               /\ orchResp' = [orchResp EXCEPT ![o] = [code |-> 500, body |-> NoResult]]
               /\ UNCHANGED <<calls, running>>
          ELSE /\ orch' = [orch EXCEPT ![o] =
                    [kind |-> "supervisor", analysisType |-> analysisType,
                     keys |-> assignedAgents, startTime |-> now]]
               /\ orchPc' = [orchPc EXCEPT ![o] = "launching"]
               /\ calls' = [calls EXCEPT ![o] =
                    [i \in 1..Len(assignedAgents) |->
                       [NoCall EXCEPT !.request =
                          AnalysisPayload(analysisType,
                            IF req.caseText = None THEN "" ELSE req.caseText,
                            req.caseId)]]]
               /\ running' = OrchLock(o)
               /\ UNCHANGED orchResp
  /\ UNCHANGED <<wsVars, msgVars, subVars, bridgeVars, busVars, regVars, tasks, taskPc, thrown, submitResp, backendCalls, reply, taskPub,
                 now, results, toolsUsed, orchResult, cache, cacheTry, orchPub>>

\* a map that awaits each arrow function before it calls the next
LaunchReady_Sequential(cs, i) ==
  /\ cs[i].state = "new"
  /\ \A j \in 1..(i - 1) : cs[j].state = "settled"

\* assignedAgents.map(async ...): the i-th arrow function is called once map has
\* called the ones before it
LaunchReady(cs, i) ==
  /\ cs[i].state = "new"
  /\ \A j \in 1..(i - 1) : cs[j].state # "new"

\* lines 73-86 (234-246 in orchestrateAnalysis): the i-th arrow function runs up
\* to its await of axios.post; map goes on while another one is ready
OrchLaunch(o, i) ==
  /\ orchPc[o] = "launching"
  /\ running \in {Idle, OrchLock(o)}
  /\ i \in 1..Len(calls[o])
  /\ LaunchReady(calls[o], i)
  /\ calls' = [calls EXCEPT ![o][i].state = "inflight"]
  /\ orchPc' = [orchPc EXCEPT ![o] =
       IF \E j \in 1..Len(calls[o]) : calls'[o][j].state = "new"
         THEN "launching" ELSE "awaiting_all"]
  /\ running' = IF \E j \in 1..Len(calls[o]) : LaunchReady(calls'[o], j)
                  THEN OrchLock(o) ELSE Idle
  /\ UNCHANGED <<wsVars, msgVars, subVars, bridgeVars, busVars, regVars, tasks, taskPc, thrown, submitResp, backendCalls, reply, taskPub,
                 now, orch, results, toolsUsed, orchResult, cache, cacheTry, orchPub,
                 orchResp>>

\* the backend answers the i-th analysis call
OrchBackendReply(o, i, r) ==
  /\ running = Idle
  /\ i \in 1..Len(calls[o])
  /\ calls[o][i].state = "inflight"
  /\ calls[o][i].reply = NoCallReply
  /\ calls' = [calls EXCEPT ![o][i].reply = r]
  /\ UNCHANGED <<wsVars, msgVars, subVars, bridgeVars, busVars, regVars, taskVars, now, orch, orchPc, results, toolsUsed, orchResult,
                 cache, cacheTry, orchPub, orchResp>>

\* an arrow function that reports progress for a failed call as well
SupervisorCallResume_ProgressAlways(o, i) ==
  /\ running = Idle
  /\ orch[o].kind = "supervisor"
  /\ i \in 1..Len(calls[o])
  /\ calls[o][i].state = "inflight"
  /\ calls[o][i].reply # NoCallReply
  /\ LET r == calls[o][i].reply
         agentId == orch[o].keys[i]
     IN /\ calls' = [calls EXCEPT ![o][i].state = "progress_pub",
                                  ![o][i].progress = "pending",
                                  ![o][i].progressAt = now]
        /\ IF r.kind = "ok"
             THEN /\ results' = [results EXCEPT ![o] = ObjectSet(@, agentId, OkSlot(r))]
                  /\ toolsUsed' = [toolsUsed EXCEPT ![o] = CollectTools(@, r.tools_used)]
             ELSE /\ results' = [results EXCEPT ![o] =
                       ObjectSet(@, agentId, FailedSlot(r.message))]
                  /\ UNCHANGED toolsUsed
  /\ UNCHANGED <<wsVars, msgVars, subVars, bridgeVars, busVars, regVars, taskVars, now, orch,
                 orchPc, orchResult, cache, cacheTry, orchPub, orchResp>>

\* lines 87-111: the i-th arrow function resumes after axios.post, stores the
\* slot, collects the tools and awaits the progress publish, or lands in its catch
SupervisorCallResume(o, i) ==
  /\ running = Idle
  /\ orch[o].kind = "supervisor"
  /\ i \in 1..Len(calls[o])
  /\ calls[o][i].state = "inflight"
  /\ calls[o][i].reply # NoCallReply
  /\ LET r == calls[o][i].reply
         agentId == orch[o].keys[i]
     IN IF r.kind = "ok"
          THEN /\ results' = [results EXCEPT ![o] = ObjectSet(@, agentId, OkSlot(r))]
               /\ toolsUsed' = [toolsUsed EXCEPT ![o] = CollectTools(@, r.tools_used)]
               /\ calls' = [calls EXCEPT ![o][i].state = "progress_pub",
                                         ![o][i].progress = "pending",
                                         ![o][i].progressAt = now]
          ELSE /\ results' = [results EXCEPT ![o] =
                    ObjectSet(@, agentId, FailedSlot(r.message))]
               /\ calls' = [calls EXCEPT ![o][i].state = "settled"]
               /\ UNCHANGED toolsUsed
  /\ UNCHANGED <<wsVars, msgVars, subVars, bridgeVars, busVars, regVars, taskVars, now, orch, orchPc, orchResult, cache, cacheTry,
                 orchPub, orchResp>>

\* the awaited progress publish of the i-th arrow function settles
SupervisorProgressSettle(o, i, ok) ==
  /\ running = Idle
  /\ orch[o].kind = "supervisor"
  /\ i \in 1..Len(calls[o])
  /\ calls[o][i].state = "progress_pub"
  /\ calls' = [calls EXCEPT ![o][i].state = "settled",
                            ![o][i].progress = IF ok THEN "ok" ELSE "failed"]
  /\ IF ~ok /\ PublishThrows
       THEN results' = [results EXCEPT ![o] =
              ObjectSet(@, orch[o].keys[i], FailedSlot("publish failed"))]
       ELSE UNCHANGED results
  /\ LET text == StringifyProgress(o, orch[o].keys[i], calls[o][i].progressAt)
     IN /\ bus' = BusAfterPublish(CH_TASK_PROGRESS, text, ok)
        /\ published' = PublishedAfter(CH_TASK_PROGRESS, text, ok)
  /\ UNCHANGED <<wsVars, msgVars, subVars, bridgeVars, regVars, taskVars, now, orch, orchPc, toolsUsed, orchResult, cache,
                 cacheTry, orchPub, orchResp>>

\* a join that gives up waiting at the first settled call
JoinReady_First(cs) == \E i \in 1..Len(cs) : cs[i].state = "settled"

\* await Promise.all(promises): every arrow function has returned
JoinReady(cs) == \A i \in 1..Len(cs) : cs[i].state = "settled"

\* the cache key of an orchestration: cache:orchestration:<taskId>
CacheKey(o) == <<"cache:", "orchestration:", o>>
CACHE_TTL == 3600

\* an orchestrate that announces completion without caching the result first
SupervisorJoin_PublishFirst(o) ==
  /\ running = Idle
  /\ orch[o].kind = "supervisor"
  /\ orchPc[o] = "awaiting_all"
  /\ JoinReady(calls[o])
  /\ orchResult' = [orchResult EXCEPT ![o] =
       [taskId |-> o,
        agents |-> orch[o].keys,
        results |-> results[o],
        aggregatedAnalysis |-> aggregateResults(results[o], orch[o].analysisType),
        processingTime |-> now - orch[o].startTime,
        toolsUsed |-> toolsUsed[o]]]
  /\ orchPc' = [orchPc EXCEPT ![o] = "publishing"]
  /\ orchPub' = [orchPub EXCEPT ![o] = "pending"]
  /\ UNCHANGED <<wsVars, msgVars, subVars, bridgeVars, busVars, regVars, taskVars, now, orch, calls,
                 results, toolsUsed, cache, cacheTry, orchResp>>

\* lines 116-131: after the join, build the result and await cacheSet
SupervisorJoin(o) ==
  /\ running = Idle
  /\ orch[o].kind = "supervisor"
  /\ orchPc[o] = "awaiting_all"
  /\ JoinReady(calls[o])
  /\ orchResult' = [orchResult EXCEPT ![o] =
       [taskId |-> o,
        agents |-> orch[o].keys,
        results |-> results[o],
        aggregatedAnalysis |-> aggregateResults(results[o], orch[o].analysisType),
        processingTime |-> now - orch[o].startTime,
        toolsUsed |-> toolsUsed[o]]]
  /\ orchPc' = [orchPc EXCEPT ![o] = "caching"]
  /\ cacheTry' = [cacheTry EXCEPT ![o] = "pending"]
  /\ UNCHANGED <<wsVars, msgVars, subVars, bridgeVars, busVars, regVars, taskVars, now, orch, calls, results, toolsUsed, cache, orchPub,
                 orchResp>>

\* RedisService.cacheSet -> set settles (a rejected client.set is caught and
\* logged); orchestrate goes on to await the completion publish
SupervisorCacheSettle(o, ok) ==
  /\ running = Idle
  /\ orchPc[o] = "caching"
  /\ cacheTry' = [cacheTry EXCEPT ![o] = IF ok THEN "ok" ELSE "failed"]
  /\ cache' = IF ok
                THEN MapSet(cache, CacheKey(o), [value |-> orchResult[o], ttl |-> CACHE_TTL])
                ELSE cache
  /\ orchPc' = [orchPc EXCEPT ![o] = "publishing"]
  /\ orchPub' = [orchPub EXCEPT ![o] = "pending"]
  /\ UNCHANGED <<wsVars, msgVars, subVars, bridgeVars, busVars, regVars, taskVars, now, orch, calls, results, toolsUsed, orchResult,
                 orchResp>>

\* the completion publish settles; orchestrate returns and the handler answers
SupervisorPublishSettle(o, ok) ==
  /\ running = Idle
  /\ orchPc[o] = "publishing"
  /\ orchPub' = [orchPub EXCEPT ![o] = IF ok THEN "ok" ELSE "failed"]
  /\ orchPc' = [orchPc EXCEPT ![o] = "returned"]
  /\ orchResp' = [orchResp EXCEPT ![o] =
       IF ~ok /\ PublishThrows
         THEN [code |-> 500, body |-> NoResult]
         ELSE [code |-> 200, body |-> orchResult[o]]]
  /\ LET text == StringifyCompletion(o, orchResult[o].processingTime, Len(orch[o].keys))
     IN /\ bus' = BusAfterPublish(CH_ORCH_COMPLETE, text, ok)
        /\ published' = PublishedAfter(CH_ORCH_COMPLETE, text, ok)
  /\ UNCHANGED <<wsVars, msgVars, subVars, bridgeVars, regVars, taskVars, now, orch, calls, results, toolsUsed, orchResult,
                 cache, cacheTry>>

\* ------------------------------------------------------ A2A orchestrateAnalysis

\* the slot of a failed analysis in orchestrateAnalysis: { error: error.message }
A2AFailedSlot(message) ==
  [error |-> message, status |-> None, analysis |-> None, result |-> None,
   tools_used |-> <<>>]

\* lines 257-259: the tools_used names of every slot, in key order, concatenated
RECURSIVE FlatTools(_)
FlatTools(res) ==
  IF res = <<>> THEN <<>>
  ELSE Head(res).value.tools_used \o FlatTools(Tail(res))

\* POST /orchestrate -> orchestrateAnalysis, lines 227-231: one call per analysis type
A2AOrchestrateBegin(o, req) ==
  /\ listening
  /\ running = Idle
  /\ NoOrchActive
  /\ o = Cardinality({p \in OrchIds : orchPc[p] # "none"}) + 1
  /\ o \in OrchIds
  /\ Len(req.analysisTypes) <= MaxFanout
  /\ orch' = [orch EXCEPT ![o] =
       [kind |-> "a2a", analysisType |-> None, keys |-> req.analysisTypes,
        startTime |-> now]]
  /\ calls' = [calls EXCEPT ![o] =
       [i \in 1..Len(req.analysisTypes) |->
          [NoCall EXCEPT !.request =
             AnalysisPayload(req.analysisTypes[i], req.caseText, req.caseId)]]]
  /\ orchPc' = [orchPc EXCEPT ![o] =
       IF req.analysisTypes = <<>> THEN "awaiting_all" ELSE "launching"]
  /\ running' = IF req.analysisTypes = <<>> THEN Idle ELSE OrchLock(o)
  /\ UNCHANGED <<wsVars, msgVars, subVars, bridgeVars, busVars, regVars, tasks, taskPc, thrown, submitResp, backendCalls, reply, taskPub,
                 now, results, toolsUsed, orchResult, cache, cacheTry, orchPub, orchResp>>

\* lines 247-251: the i-th arrow function resumes after axios.post
A2ACallResume(o, i) ==
  /\ running = Idle
  /\ orch[o].kind = "a2a"
  /\ i \in 1..Len(calls[o])
  /\ calls[o][i].state = "inflight"
  /\ calls[o][i].reply # NoCallReply
  /\ LET r == calls[o][i].reply
     IN results' = [results EXCEPT ![o] =
          ObjectSet(@, orch[o].keys[i],
                    IF r.kind = "ok" THEN OkSlot(r) ELSE A2AFailedSlot(r.message))]
  /\ calls' = [calls EXCEPT ![o][i].state = "settled"]
  /\ UNCHANGED <<wsVars, msgVars, subVars, bridgeVars, busVars, regVars, taskVars, now, orch, orchPc, toolsUsed, orchResult, cache,
                 cacheTry, orchPub, orchResp>>

\* lines 254-269 and 172: after the join, build the response and send it
A2AJoinRespond(o) ==
  /\ running = Idle
  /\ orch[o].kind = "a2a"
  /\ orchPc[o] = "awaiting_all"
  /\ JoinReady(calls[o])
  /\ toolsUsed' = [toolsUsed EXCEPT ![o] = FlatTools(results[o])]
  /\ orchPc' = [orchPc EXCEPT ![o] = "returned"]
  /\ orchResp' = [orchResp EXCEPT ![o] =
       [code |-> 200,
        body |-> [taskId |-> o, agents |-> orch[o].keys, results |-> results[o],
                  processingTime |-> now - orch[o].startTime,
                  toolsUsed |-> FlatTools(results[o])]]]
  /\ UNCHANGED <<wsVars, msgVars, subVars, bridgeVars, busVars, regVars, taskVars, now, orch, calls, results, orchResult, cache,
                 cacheTry, orchPub>>

\* ------------------------------------------------------------------ bridge

\* setupRedisSubscriptions: the channels in the order they are subscribed, and
\* the type of the envelope each one's handler broadcasts
WiredChannels == <<CH_TASK_COMPLETE, CH_TASK_PROGRESS, CH_ORCH_COMPLETE>>
EnvelopeType == <<"analysis_complete", "task_progress", "analysis_complete">>

\* start(): redis.connect() (which swallows its failure), the three subscribes
\* in order, then server.listen; no request is served before
Start(oks) ==
  /\ ~listening
  /\ LET s0 == [handlers |-> handlers, subscribed |-> subscribed]
         s1 == RedisSubscribe(s0, WiredChannels[1], EnvelopeType[1], oks[1])
         s2 == RedisSubscribe(s1, WiredChannels[2], EnvelopeType[2], oks[2])
         s3 == RedisSubscribe(s2, WiredChannels[3], EnvelopeType[3], oks[3])
     IN /\ handlers' = s3.handlers
        /\ subscribed' = s3.subscribed
  /\ listening' = TRUE
  /\ UNCHANGED <<wsVars, msgVars, subVars, wsClients, readyState, received, busVars, regVars, taskVars, now, orchVars>>

\* the welcome message of the connection handler
Welcome(c, time) ==
  [type |-> "agent_update", data |-> [clientId |-> c], timestamp |-> time]

\* wss.on('connection'): the client is added to the map and sent the welcome
WsConnect(c) ==
  /\ listening
  /\ running = Idle
  /\ c \in ClientIds
  /\ c = Cardinality({d \in ClientIds : readyState[d] # "none"}) + 1
  /\ wsClients' = wsClients \cup {c}
  /\ readyState' = [readyState EXCEPT ![c] = "OPEN"]
  /\ received' = [received EXCEPT ![c] = <<Welcome(c, now)>>]
  /\ UNCHANGED <<wsVars, msgVars, subVars, listening, handlers, subscribed, busVars, regVars, taskVars, now, orchVars>>

\* the answer to a ping
Pong(time) == [type |-> "pong", timestamp |-> time]

\* handleWebSocketMessage on st = [clients, received]: a ping from a client of
\* the map whose socket is OPEN is answered with a pong; subscribe_task and
\* every other type are only logged
handleWebSocketMessage(st, clientId, type, time) ==
  IF type = "ping" /\ clientId \in st.clients /\ readyState[clientId] = "OPEN"
    THEN [st EXCEPT !.received[clientId] = Append(@, Pong(time))]
    ELSE st

\* ws.on('message'): parse the frame and hand it to handleWebSocketMessage; a
\* frame that does not parse is logged
WsMessage(c, frame) ==
  /\ running = Idle
  /\ c \in ClientIds
  /\ readyState[c] = "OPEN"
  /\ wsInbound[c] < MaxInbound
  /\ wsInbound' = [wsInbound EXCEPT ![c] = @ + 1]
  /\ LET st == IF frame.json
                 THEN handleWebSocketMessage([clients |-> wsClients, received |-> received],
                                             c, frame.type, now)
                 ELSE [clients |-> wsClients, received |-> received]
     IN /\ wsClients' = st.clients
        /\ received' = st.received
  /\ UNCHANGED <<msgVars, subVars, listening, handlers, subscribed, readyState, busVars,
                 regVars, taskVars, now, orchVars>>

\* a closing handshake has begun: the socket is no longer open, 'close' is not
\* yet emitted
WsBeginClose(c) ==
  /\ running = Idle
  /\ readyState[c] = "OPEN"
  /\ readyState' = [readyState EXCEPT ![c] = "CLOSING"]
  /\ UNCHANGED <<wsVars, msgVars, subVars, listening, handlers, subscribed, wsClients, received, busVars, regVars,
                 taskVars, now, orchVars>>

\* ws.on('close'): the client is removed from the map
WsClose(c) ==
  /\ running = Idle
  /\ readyState[c] \in {"OPEN", "CLOSING"}
  /\ readyState' = [readyState EXCEPT ![c] = "CLOSED"]
  /\ wsClients' = wsClients \ {c}
  /\ UNCHANGED <<wsVars, msgVars, subVars, listening, handlers, subscribed, received, busVars, regVars, taskVars,
                 now, orchVars>>

\* an 'error' listener that only logs and keeps the client in the map
WsError_KeepClient(c) ==
  /\ running = Idle
  /\ readyState[c] = "OPEN"
  /\ readyState' = [readyState EXCEPT ![c] = "CLOSING"]
  /\ UNCHANGED <<wsVars, msgVars, subVars, listening, handlers, subscribed, wsClients,
                 received, busVars, regVars, taskVars, now, orchVars>>

\* ws.on('error'): the client is removed from the map; the socket is closing
WsError(c) ==
  /\ running = Idle
  /\ readyState[c] = "OPEN"
  /\ readyState' = [readyState EXCEPT ![c] = "CLOSING"]
  /\ wsClients' = wsClients \ {c}
  /\ UNCHANGED <<wsVars, msgVars, subVars, listening, handlers, subscribed, received, busVars, regVars, taskVars,
                 now, orchVars>>

\* a broadcast that sends to every client in the map, whatever its socket's state
CanSend_Any(st, c) == c \in st.clients

\* broadcastToClients sends to a client of the map whose socket is OPEN
CanSend(st, c) == c \in st.clients /\ readyState[c] = "OPEN"

\* broadcastToClients on st = [clients, received]: send to the open sockets,
\* delete the others from the map
broadcastToClients(st, message) ==
  [clients |-> {c \in st.clients : readyState[c] = "OPEN"},
   received |-> [c \in DOMAIN st.received |->
                   IF CanSend(st, c) THEN Append(st.received[c], message)
                   ELSE st.received[c]]]

\* the wired handler of a channel: broadcast { type, data: JSON.parse(message), timestamp }
Envelope(type, text, time) ==
  [type |-> type, data |-> JSONParse(text), timestamp |-> time]

\* channelHandlers.forEach((handler) => handler(message))
RECURSIVE RunHandlers(_, _, _, _)
RunHandlers(hs, st, text, time) ==
  IF hs = <<>> THEN st
  ELSE RunHandlers(Tail(hs), broadcastToClients(st, Envelope(Head(hs), text, time)),
                   text, time)

\* subscriber.on('message'): the oldest message in flight reaches the service
Deliver ==
  /\ running = Idle
  /\ bus # <<>>
  /\ LET m == Head(bus)
         hs == IF m.channel \in DOMAIN handlers THEN handlers[m.channel] ELSE <<>>
         st == RunHandlers(hs, [clients |-> wsClients, received |-> received],
                           m.message, now)
     IN /\ wsClients' = st.clients
        /\ received' = st.received
  /\ bus' = Tail(bus)
  /\ UNCHANGED <<wsVars, msgVars, subVars, listening, handlers, subscribed, readyState, published, regVars, taskVars,
                 now, orchVars>>

\* time passes
Tick ==
  /\ running = Idle
  /\ now < MaxTime
  /\ now' = now + 1
  /\ UNCHANGED <<wsVars, msgVars, subVars, bridgeVars, busVars, regVars, taskVars, orchVars>>

\* -------------------------------------------------------------------- spec

Init ==
  /\ agents = registerDefaultAgents
  /\ tasks = <<>>
  /\ taskPc = [t \in TaskIds |-> "none"]
  /\ thrown = [t \in TaskIds |-> <<>>]
  /\ submitResp = [t \in TaskIds |-> None]
  /\ backendCalls = [t \in TaskIds |-> 0]
  /\ reply = [t \in TaskIds |-> NoReply]
  /\ taskPub = [t \in TaskIds |-> None]
  /\ running = Idle
  /\ now = 0
  /\ orch = [o \in OrchIds |-> NoOrch]
  /\ orchPc = [o \in OrchIds |-> "none"]
  /\ calls = [o \in OrchIds |-> <<>>]
  /\ results = [o \in OrchIds |-> <<>>]
  /\ toolsUsed = [o \in OrchIds |-> <<>>]
  /\ orchResult = [o \in OrchIds |-> NoResult]
  /\ cache = <<>>
  /\ cacheTry = [o \in OrchIds |-> None]
  /\ orchPub = [o \in OrchIds |-> None]
  /\ orchResp = [o \in OrchIds |-> NoResp]
  /\ listening = FALSE
  /\ handlers = <<>>
  /\ subscribed = {}
  /\ bus = <<>>
  /\ wsClients = {}
  /\ readyState = [c \in ClientIds |-> "none"]
  /\ received = [c \in ClientIds |-> <<>>]
  /\ published = {}
  /\ httpResp = NoHttpResp
  /\ msgs = [m \in MsgIds |-> NoMsg]
  /\ subCalls = [k \in SubIds |-> NoSubCall]
  /\ subRequests = [ch \in SubChannels |-> 0]
  /\ inbox = <<>>
  /\ invoked = <<>>
  /\ wsInbound = [c \in ClientIds |-> 0]

Next ==
  \/ \E oks \in {AllSubscribed} : Start(oks)
  \/ \E id \in RegisterIds : RegisterAgent(id, [name |-> "Custom A", endpoint |-> "/custom/a"])
  \/ \E id \in RegisterIds : DeregisterAgent(id)
  \/ \E t \in TaskIds, a \in SubmitAgentIds, i \in TaskInputs : SubmitTask(t, a, i)
  \/ \E t \in TaskIds : ProcessTaskBegin(t)
  \/ \E t \in TaskIds : ProcessTaskCatch(t)
  \/ \E t \in TaskIds : SubmitRespond(t)
  \/ \E t \in TaskIds, r \in TaskReplies : BackendReply(t, r)
  \/ \E t \in TaskIds : ProcessTaskResume(t)
  \/ \E t \in TaskIds, ok \in BOOLEAN : TaskPublishSettle(t, ok)
  \/ Tick

Spec == Init /\ [][Next]_vars

\* the supervisor's orchestrations
NextOrch ==
  \/ \E oks \in {AllSubscribed} : Start(oks)
  \/ \E o \in OrchIds, req \in SupervisorRequests : SupervisorReject(o, req)
  \/ \E o \in OrchIds, req \in SupervisorRequests : OrchestrateBegin(o, req)
  \/ \E o \in OrchIds, i \in 1..MaxFanout : OrchLaunch(o, i)
  \/ \E o \in OrchIds, i \in 1..MaxFanout, r \in OrchReplies : OrchBackendReply(o, i, r)
  \/ \E o \in OrchIds, i \in 1..MaxFanout : SupervisorCallResume(o, i)
  \/ \E o \in OrchIds, i \in 1..MaxFanout, ok \in BOOLEAN : SupervisorProgressSettle(o, i, ok)
  \/ \E o \in OrchIds : SupervisorJoin(o)
  \/ \E o \in OrchIds, ok \in BOOLEAN : SupervisorCacheSettle(o, ok)
  \/ \E o \in OrchIds, ok \in BOOLEAN : SupervisorPublishSettle(o, ok)
  \/ \E o \in OrchIds, req \in A2ARequests : A2AOrchestrateBegin(o, req)
  \/ \E o \in OrchIds, i \in 1..MaxFanout : A2ACallResume(o, i)
  \/ \E o \in OrchIds : A2AJoinRespond(o)

SpecOrch == Init /\ [][NextOrch]_vars

\* the event loop runs every started handler and every settled await to its end
FairSpec ==
  /\ Spec
  /\ WF_vars(\E oks \in {AllSubscribed} : Start(oks))
  /\ WF_vars(\E t \in TaskIds : ProcessTaskBegin(t))
  /\ WF_vars(\E t \in TaskIds : ProcessTaskCatch(t))
  /\ WF_vars(\E t \in TaskIds : SubmitRespond(t))
  /\ WF_vars(\E t \in TaskIds : ProcessTaskResume(t))
  /\ WF_vars(\E t \in TaskIds, ok \in BOOLEAN : TaskPublishSettle(t, ok))

\* requests and replies of the runs that feed the bridge and of the degraded runs
BridgeRequests ==
  {[caseText |-> None, analysisType |-> "compliance_check", caseId |-> "case-7"]}
BridgeTaskReplies == {r \in TaskReplies : r.kind = "ok" /\ r.data = "payload-A"}
BridgeOrchReplies == {r \in OrchReplies : r.kind = "ok" /\ r.analysis # None}

\* the service with its WebSocket clients: every publisher, the transport and
\* the sockets
NextBridge ==
  \/ \E oks \in SubscribeOutcomes : Start(oks)
  \/ \E c \in ClientIds : WsConnect(c)
  \/ \E c \in ClientIds : WsBeginClose(c)
  \/ \E c \in ClientIds : WsClose(c)
  \/ \E c \in ClientIds : WsError(c)
  \/ Deliver
  \/ \E t \in TaskIds : SubmitTask(t, "legal-analyst", "input")
  \/ \E t \in TaskIds : ProcessTaskBegin(t)
  \/ \E t \in TaskIds : SubmitRespond(t)
  \/ \E t \in TaskIds, r \in BridgeTaskReplies : BackendReply(t, r)
  \/ \E t \in TaskIds : ProcessTaskResume(t)
  \/ \E t \in TaskIds, ok \in BOOLEAN : TaskPublishSettle(t, ok)
  \/ \E o \in OrchIds, req \in BridgeRequests : OrchestrateBegin(o, req)
  \/ \E o \in OrchIds, i \in 1..MaxFanout : OrchLaunch(o, i)
  \/ \E o \in OrchIds, i \in 1..MaxFanout, r \in BridgeOrchReplies : OrchBackendReply(o, i, r)
  \/ \E o \in OrchIds, i \in 1..MaxFanout : SupervisorCallResume(o, i)
  \/ \E o \in OrchIds, i \in 1..MaxFanout, ok \in BOOLEAN : SupervisorProgressSettle(o, i, ok)
  \/ \E o \in OrchIds : SupervisorJoin(o)
  \/ \E o \in OrchIds : SupervisorCacheSettle(o, TRUE)
  \/ \E o \in OrchIds, ok \in BOOLEAN : SupervisorPublishSettle(o, ok)

SpecBridge == Init /\ [][NextBridge]_vars

\* requests and replies of the degraded runs
DegradedRequests ==
  {req \in SupervisorRequests : req.analysisType \in {"risk_assessment", "compliance_check"}}
DegradedTaskReplies ==
  {r \in TaskReplies : r.data = "payload-A" \/ r.bodyError # None}
DegradedOrchReplies == {r \in OrchReplies : r.result = None}

\* the service while Redis is unreachable: every subscribe, set and publish is
\* rejected
NextDegraded ==
  \/ Start(NoneSubscribed)
  \/ \E t \in TaskIds : SubmitTask(t, "legal-analyst", "input")
  \/ \E t \in TaskIds : ProcessTaskBegin(t)
  \/ \E t \in TaskIds : ProcessTaskCatch(t)
  \/ \E t \in TaskIds : SubmitRespond(t)
  \/ \E t \in TaskIds, r \in DegradedTaskReplies : BackendReply(t, r)
  \/ \E t \in TaskIds : ProcessTaskResume(t)
  \/ \E t \in TaskIds : TaskPublishSettle(t, FALSE)
  \/ \E o \in OrchIds, req \in DegradedRequests : SupervisorReject(o, req)
  \/ \E o \in OrchIds, req \in DegradedRequests : OrchestrateBegin(o, req)
  \/ \E o \in OrchIds, i \in 1..MaxFanout : OrchLaunch(o, i)
  \/ \E o \in OrchIds, i \in 1..MaxFanout, r \in DegradedOrchReplies : OrchBackendReply(o, i, r)
  \/ \E o \in OrchIds, i \in 1..MaxFanout : SupervisorCallResume(o, i)
  \/ \E o \in OrchIds, i \in 1..MaxFanout : SupervisorProgressSettle(o, i, FALSE)
  \/ \E o \in OrchIds : SupervisorJoin(o)
  \/ \E o \in OrchIds : SupervisorCacheSettle(o, FALSE)
  \/ \E o \in OrchIds : SupervisorPublishSettle(o, FALSE)

\* the event loop runs every handler and every settled await to its end, and
\* every backend call and every Redis command settles
SpecDegraded ==
  /\ Init /\ [][NextDegraded]_vars
  /\ WF_vars(\E t \in TaskIds : ProcessTaskBegin(t))
  /\ WF_vars(\E t \in TaskIds : ProcessTaskCatch(t))
  /\ WF_vars(\E t \in TaskIds : SubmitRespond(t))
  /\ WF_vars(\E t \in TaskIds : ProcessTaskResume(t))
  /\ WF_vars(\E t \in TaskIds : TaskPublishSettle(t, FALSE))
  /\ WF_vars(\E o \in OrchIds, i \in 1..MaxFanout : OrchLaunch(o, i))
  /\ WF_vars(\E o \in OrchIds, i \in 1..MaxFanout, r \in DegradedOrchReplies :
               OrchBackendReply(o, i, r))
  /\ WF_vars(\E o \in OrchIds, i \in 1..MaxFanout : SupervisorCallResume(o, i))
  /\ WF_vars(\E o \in OrchIds, i \in 1..MaxFanout : SupervisorProgressSettle(o, i, FALSE))
  /\ WF_vars(\E o \in OrchIds : SupervisorJoin(o))
  /\ WF_vars(\E o \in OrchIds : SupervisorCacheSettle(o, FALSE))
  /\ WF_vars(\E o \in OrchIds : SupervisorPublishSettle(o, FALSE))

\* RedisService.subscribe called by concurrent callers while messages arrive
NextSubscribe ==
  \/ \E k \in SubIds, ch \in SubChannels, h \in SubHandlers : SubscribeBegin(k, ch, h)
  \/ \E k \in SubIds, ok \in BOOLEAN : SubscribeSettle(k, ok)
  \/ \E ch \in SubChannels : SubscriberMessage(ch, "text")

SpecSubscribe == Init /\ [][NextSubscribe]_vars

\* the registry and the task store under every route that reads or writes them
StoreTaskReplies == {r \in TaskReplies : r.data = "payload-A" \/ r.bodyError # None}
NextStore ==
  \/ Start(AllSubscribed)
  \/ \E id \in RegisterIds, body \in CardBodies : RegisterAgent(id, body)
  \/ \E id \in RegisterIds : DeregisterAgent(id)
  \/ \E id \in LookupAgentIds : DeregisterAgentNotFound(id)
  \/ \E id \in LookupAgentIds : GetAgent(id)
  \/ ListAgents
  \/ \E id \in LookupTaskIds : GetTask(id)
  \/ ListTasks
  \/ \E t \in TaskIds, a \in {"legal-analyst", "nonexistent-agent"} : SubmitTask(t, a, "input")
  \/ \E t \in TaskIds : ProcessTaskBegin(t)
  \/ \E t \in TaskIds : ProcessTaskCatch(t)
  \/ \E t \in TaskIds : SubmitRespond(t)
  \/ \E t \in TaskIds, r \in StoreTaskReplies : BackendReply(t, r)
  \/ \E t \in TaskIds : ProcessTaskResume(t)
  \/ \E t \in TaskIds : TaskPublishSettle(t, TRUE)

SpecStore == Init /\ [][NextStore]_vars

\* inter-agent messages next to a changing registry and a stored task
NextMessages ==
  \/ Start(AllSubscribed)
  \/ \E body \in CardBodies : RegisterAgent("custom-agent", body)
  \/ DeregisterAgent("custom-agent")
  \/ \E t \in TaskIds : SubmitTask(t, "nonexistent-agent", "input")
  \/ \E t \in TaskIds : ProcessTaskBegin(t)
  \/ \E t \in TaskIds : ProcessTaskCatch(t)
  \/ \E t \in TaskIds : SubmitRespond(t)
  \/ \E m \in MsgIds, body \in MessageBodies : SendMessage(m, body)
  \/ \E m \in MsgIds, ok \in BOOLEAN : MessagePublishSettle(m, ok)
  \/ Tick

SpecMessages == Init /\ [][NextMessages]_vars

\* the supervisor's orchestrations while agents are registered and deregistered
RegistryRequests ==
  {req \in SupervisorRequests :
     req.caseText # None /\ req.analysisType \in {"risk_assessment", "unlisted_type"}}
NextOrchRegistry ==
  \/ Start(AllSubscribed)
  \/ \E id \in {"legal-analyst", "risk-assessor"}, body \in CardBodies : RegisterAgent(id, body)
  \/ \E id \in {"legal-analyst", "risk-assessor"} : DeregisterAgent(id)
  \/ \E o \in OrchIds, req \in RegistryRequests : OrchestrateBegin(o, req)
  \/ \E o \in OrchIds, i \in 1..MaxFanout : OrchLaunch(o, i)
  \/ \E o \in OrchIds, i \in 1..MaxFanout, r \in OrchReplies : OrchBackendReply(o, i, r)
  \/ \E o \in OrchIds, i \in 1..MaxFanout : SupervisorCallResume(o, i)
  \/ \E o \in OrchIds, i \in 1..MaxFanout : SupervisorProgressSettle(o, i, TRUE)
  \/ \E o \in OrchIds : SupervisorJoin(o)
  \/ \E o \in OrchIds : SupervisorCacheSettle(o, TRUE)
  \/ \E o \in OrchIds : SupervisorPublishSettle(o, TRUE)

SpecOrchRegistry == Init /\ [][NextOrchRegistry]_vars

\* the real-time clients and what they send to the service
NextInbound ==
  \/ Start(AllSubscribed)
  \/ \E c \in ClientIds : WsConnect(c)
  \/ \E c \in ClientIds, frame \in InboundFrames : WsMessage(c, frame)
  \/ \E c \in ClientIds : WsBeginClose(c)
  \/ \E c \in ClientIds : WsClose(c)
  \/ \E c \in ClientIds : WsError(c)

SpecInbound == Init /\ [][NextInbound]_vars

\* the real-time clients and the broadcasts of task completions
NextClients ==
  \/ Start(AllSubscribed)
  \/ \E c \in ClientIds : WsConnect(c)
  \/ \E c \in ClientIds : WsBeginClose(c)
  \/ \E c \in ClientIds : WsClose(c)
  \/ \E c \in ClientIds : WsError(c)
  \/ \E t \in TaskIds : SubmitTask(t, "legal-analyst", "input")
  \/ \E t \in TaskIds : ProcessTaskBegin(t)
  \/ \E t \in TaskIds : SubmitRespond(t)
  \/ \E t \in TaskIds, r \in BridgeTaskReplies : BackendReply(t, r)
  \/ \E t \in TaskIds : ProcessTaskResume(t)
  \/ \E t \in TaskIds : TaskPublishSettle(t, TRUE)
  \/ Deliver

SpecClients == Init /\ [][NextClients]_vars

\* ------------------------------------------------------------------ claims

StatusStep(old, new) ==
  \/ old = new
  \/ <<old, new>> \in { <<"pending", "in_progress">>,
                        <<"in_progress", "completed">>,
                        <<"in_progress", "failed">> }

\* C1: every task is stored pending and its status only moves
\* pending -> in_progress -> completed or pending -> in_progress -> failed;
\* a completed or failed task never changes status again.
C1_StatusOrder ==
  [][\A t \in DOMAIN tasks' :
       IF t \in DOMAIN tasks
         THEN StatusStep(tasks[t].status, tasks'[t].status)
         ELSE tasks'[t].status = "pending"]_vars

\* a task whose backend call failed after the submit response went out
C1_Witness ==
  \E t \in DOMAIN tasks :
    /\ tasks[t].status = "failed"
    /\ reply[t].kind = "fail"
    /\ submitResp[t] = "in_progress"

\* C2: the submit response shows the new task with status pending, never
\* in_progress, completed or failed.
C2_SubmitReturnsPending ==
  \A t \in TaskIds : submitResp[t] \in {None, "pending"}

\* C3: a task whose agent is not registered when processTask looks it up ends
\* failed with "Agent not found: <id>", and causes no backend call and no
\* task-completion publish.
C3_UnknownAgentFails ==
  /\ [][\A t \in DOMAIN tasks :
          (taskPc[t] = "created" /\ taskPc'[t] # "created"
             /\ tasks[t].agentId \notin DOMAIN agents)
          => (taskPc'[t] = "throwing"
                /\ thrown'[t] = AgentNotFound(tasks[t].agentId))]_vars
  /\ [](\A t \in DOMAIN tasks :
          thrown[t] = AgentNotFound(tasks[t].agentId)
          => /\ backendCalls[t] = 0
             /\ reply[t] = NoReply
             /\ taskPub[t] = None
             /\ tasks[t].status \in {"in_progress", "failed"}
             /\ (taskPc[t] = "settled"
                   => /\ tasks[t].status = "failed"
                      /\ tasks[t].error[1] = "Agent not found: "
                      /\ tasks[t].error[2] = tasks[t].agentId)
             /\ (submitResp[t] # None => tasks[t].status = "failed"))

\* a task for an unregistered agent has failed and other work went on after it
C3_Witness ==
  \E t \in DOMAIN tasks :
    /\ tasks[t].agentId \notin DOMAIN agents
    /\ thrown[t] = AgentNotFound(tasks[t].agentId)
    /\ tasks[t].status = "failed"
    /\ submitResp[t] = "failed"

\* C4: once the backend has answered a task's call with a payload, the task
\* becomes completed and stays completed, with result equal to that payload and
\* completedAt set and not before createdAt, whatever the publish does.
C4_CompletedWithResult ==
  /\ [](\A t \in DOMAIN tasks :
          (reply[t].kind = "ok" /\ taskPc[t] # "awaiting_backend")
          => /\ tasks[t].status = "completed"
             /\ tasks[t].result = reply[t].data
             /\ tasks[t].completedAt >= tasks[t].createdAt
             /\ tasks[t].completedAt >= 0)
  /\ \A t \in TaskIds :
       (reply[t].kind = "ok")
         ~> (t \in DOMAIN tasks /\ tasks[t].status = "completed" /\ taskPc[t] = "settled")

\* a completed task whose publish failed, completed later than it was created
C4_Witness ==
  \E t \in DOMAIN tasks :
    /\ reply[t].kind = "ok"
    /\ tasks[t].status = "completed"
    /\ taskPub[t] = "failed"
    /\ tasks[t].completedAt > tasks[t].createdAt

\* ---------------------------------------------------- claims on orchestration

\* a supervisor orchestration that has answered 200
Returned(o) ==
  orch[o].kind = "supervisor" /\ orchPc[o] = "returned" /\ orchResp[o].code = 200

FailedCalls(o) == {i \in 1..Len(calls[o]) : calls[o][i].reply.kind = "fail"}
OkCalls(o) == {i \in 1..Len(calls[o]) : calls[o][i].reply.kind = "ok"}
SeqRange(seq) == {seq[i] : i \in 1..Len(seq)}
NoDuplicates(seq) == \A i, j \in 1..Len(seq) : seq[i] = seq[j] => i = j

\* C5: with N routed agents of which K calls fail, the returned result has
\* exactly N entries in results, one per routed agent id; the Failed Agents
\* section lists exactly the K failing ids; toolsUsed is the de-duplicated
\* union of the tool names the N-K successful calls reported.
C5_PartialFailureResult ==
  \A o \in OrchIds :
    Returned(o) =>
      LET body == orchResp[o].body
          failedIds == {orch[o].keys[i] : i \in FailedCalls(o)}
      IN /\ Len(body.results) = Len(orch[o].keys)
         /\ ObjectKeys(body.results) = SeqRange(orch[o].keys)
         /\ Len(body.aggregatedAnalysis.failedSection) = Cardinality(FailedCalls(o))
         /\ {body.aggregatedAnalysis.failedSection[i].agentId :
               i \in 1..Len(body.aggregatedAnalysis.failedSection)} = failedIds
         /\ body.aggregatedAnalysis.hasFailedSection = (failedIds # {})
         /\ NoDuplicates(body.toolsUsed)
         /\ SeqRange(body.toolsUsed)
              = UNION {SeqRange(calls[o][i].reply.tools_used) : i \in OkCalls(o)}

\* two agents, one failed, the other reported a tool twice
C5_Witness ==
  \E o \in OrchIds :
    /\ Returned(o)
    /\ Len(orch[o].keys) = 2
    /\ Cardinality(FailedCalls(o)) = 1
    /\ \E i \in OkCalls(o) : ~NoDuplicates(calls[o][i].reply.tools_used)

\* the slot of call i of orchestration o in the results collected so far
SlotOf(o, i) == results[o][ObjectGet(results[o], orch[o].keys[i])].value

\* C6: agent failures never fail the orchestration: a routed orchestration
\* answers 200 with its OrchestrationResult whatever subset of calls failed, a
\* failed call's slot is {error, status: failed} and every other slot is exactly
\* what its own call returned.
C6_FailureIsolation ==
  \A o \in OrchIds :
    (orch[o].kind = "supervisor" /\ orch[o].keys # <<>>) =>
      /\ \A i \in 1..Len(calls[o]) :
           calls[o][i].state \in {"progress_pub", "settled"}
           => /\ orch[o].keys[i] \in ObjectKeys(results[o])
              /\ calls[o][i].reply.kind = "fail"
                   => /\ SlotOf(o, i).error = calls[o][i].reply.message
                      /\ SlotOf(o, i).status = "failed"
                      /\ SlotOf(o, i).analysis = None /\ SlotOf(o, i).result = None
              /\ calls[o][i].reply.kind = "ok"
                   => /\ SlotOf(o, i).error = None
                      /\ SlotOf(o, i).analysis = calls[o][i].reply.analysis
                      /\ SlotOf(o, i).result = calls[o][i].reply.result
                      /\ SlotOf(o, i).tools_used = calls[o][i].reply.tools_used
      /\ orchPc[o] = "returned"
           => /\ orchResp[o].code = 200
              /\ orchResp[o].body = orchResult[o]
              /\ orchResp[o].body.results = results[o]

\* every call of a two-agent orchestration failed and the caller got the result
C6_Witness ==
  \E o \in OrchIds :
    /\ Returned(o)
    /\ Len(orch[o].keys) = 2
    /\ FailedCalls(o) = {1, 2}
    /\ orchResp[o].body.results # <<>>

\* C7 as claimed: POST orchestrate with analysisTypes = ["risk_assessment"] and
\* a caseText issues two backend calls and answers with risk-assessor and
\* legal-analyst as the keys of results.
C7_A2AOrchestrateRoutes ==
  \A o \in OrchIds :
    (/\ orch[o].kind = "a2a"
     /\ orch[o].keys = <<"risk_assessment">>
     /\ orchPc[o] = "returned")
    => /\ Len(calls[o]) = 2
       /\ ObjectKeys(orchResp[o].body.results) = {"risk-assessor", "legal-analyst"}

\* C7 amended: the supervisor's orchestrate with analysisType risk_assessment
\* selects exactly risk-assessor and legal-analyst, issues exactly two backend
\* calls and answers with both ids as the keys of results; POST orchestrate with
\* analysisTypes = ["risk_assessment"] issues exactly one backend call and
\* answers with the single key risk_assessment.
C7_RiskAssessmentRouting ==
  \A o \in OrchIds :
    /\ (orch[o].kind = "supervisor" /\ orch[o].analysisType = "risk_assessment")
       => /\ orch[o].keys = <<"risk-assessor", "legal-analyst">>
          /\ Len(calls[o]) = 2
          /\ \A i \in 1..2 : calls[o][i].request.analysis_type = "risk_assessment"
          /\ orchPc[o] = "returned"
               => /\ orchResp[o].code = 200
                  /\ ObjectKeys(orchResp[o].body.results)
                       = {"risk-assessor", "legal-analyst"}
    /\ (orch[o].kind = "a2a" /\ orch[o].keys = <<"risk_assessment">>)
       => /\ Len(calls[o]) = 1
          /\ orchPc[o] = "returned"
               => ObjectKeys(orchResp[o].body.results) = {"risk_assessment"}

\* a supervisor orchestration of risk_assessment has answered with a case text
C7_Witness ==
  \E o \in OrchIds :
    /\ Returned(o)
    /\ orch[o].analysisType = "risk_assessment"
    /\ DOMAIN agents = DefaultAgentIds
    /\ calls[o][1].request.input_text = "case text"
    /\ Len(orchResp[o].body.results) = 2

\* C8: every call of an orchestration is launched before the handler first
\* yields and before any of its calls has settled; the result is built, cached,
\* announced and returned only after every call has settled.
C8_ParallelLaunchAndJoin ==
  /\ [](\A o \in OrchIds :
          /\ (running = Idle /\ orchPc[o] # "none")
             => \A i \in 1..Len(calls[o]) : calls[o][i].state # "new"
          /\ (orchPc[o] \in {"caching", "publishing", "returned"}
                \/ orchResult[o] # NoResult \/ cacheTry[o] # None \/ orchPub[o] # None)
             => \A i \in 1..Len(calls[o]) : calls[o][i].state = "settled")
  /\ [][\A o \in OrchIds : \A i \in 1..Len(calls[o]) :
          (calls[o][i].state = "new" /\ calls'[o][i].state = "inflight")
          => \A j \in 1..Len(calls[o]) :
               /\ calls[o][j].state \in {"new", "inflight"}
               /\ calls[o][j].reply = NoCallReply]_vars

\* both calls of a two-agent supervisor orchestration are in flight, unanswered
C8_Witness ==
  \E o \in OrchIds :
    /\ orch[o].kind = "supervisor"
    /\ Len(calls[o]) = 2
    /\ \A i \in 1..2 : calls[o][i].state = "inflight" /\ calls[o][i].reply = NoCallReply

\* ------------------------------------------- claims on transport and bridge

\* C9: while the transport is unavailable a publish never throws into its
\* caller: a task whose backend call succeeded still becomes completed with the
\* payload, an orchestration still answers 200 with the result it computed, and
\* all that is lost is the notifications (nothing is accepted by the transport,
\* nothing is cached).
C9_DegradedTransport ==
  /\ [](bus = <<>> /\ published = {} /\ cache = <<>> /\ subscribed = {})
  /\ [](\A t \in TaskIds :
          taskPub[t] = "failed"
          => /\ taskPc[t] = "settled"
             /\ tasks[t].status = "completed"
             /\ tasks[t].result = reply[t].data
             /\ thrown[t] = <<>>)
  /\ \A t \in TaskIds :
       (taskPc[t] = "awaiting_backend" /\ reply[t].kind = "ok")
       ~> (taskPc[t] = "settled" /\ tasks[t].status = "completed")
  /\ [](\A o \in OrchIds :
          (orchPc[o] = "returned" /\ orch[o].keys # <<>>)
          => /\ orchPub[o] = "failed" /\ cacheTry[o] = "failed"
             /\ orchResp[o].code = 200
             /\ orchResp[o].body = orchResult[o]
             /\ orchResp[o].body.results = results[o]
             /\ \A i \in 1..Len(calls[o]) :
                  calls[o][i].reply.kind = "ok" => calls[o][i].progress = "failed")
  /\ \A o \in OrchIds :
       (orchPc[o] \in {"launching", "awaiting_all", "caching", "publishing"})
       ~> (orchPc[o] = "returned" /\ orchResp[o].code = 200)

\* a task is completed and a two-agent orchestration has answered, every one of
\* their publishes rejected
C9_Witness ==
  /\ \E t \in TaskIds :
       taskPub[t] = "failed" /\ tasks[t].status = "completed"
  /\ \E o \in OrchIds :
       /\ Returned(o)
       /\ orchPub[o] = "failed"
       /\ Len(calls[o]) = 2
       /\ \E i \in 1..2 : calls[o][i].progress = "failed"

\* the envelope type each wired channel is bridged to
TypeOfChannel(channel) ==
  IF channel = "a2a:task_progress" THEN "task_progress" ELSE "analysis_complete"

\* the envelopes of client c that carry the published text on the channel
EnvelopesFor(c, channel, text) ==
  {k \in 1..Len(received[c]) :
     /\ received[c][k].type = TypeOfChannel(channel)
     /\ received[c][k].data = text.json}

InFlight(channel, text) ==
  \E k \in 1..Len(bus) : bus[k].channel = channel /\ bus[k].message = text

\* C10 as claimed: for every message published on a wired channel, each client
\* connected at that moment receives exactly one envelope for it.
C10_EveryPublishReachesAudience ==
  \A p \in published :
    ~InFlight(p.channel, p.message)
    => \A c \in p.audience :
         Cardinality(EnvelopesFor(c, p.channel, p.message)) = 1

\* C10 amended: for every message the transport delivers on a wired channel
\* whose handler was registered at start-up, every client that is in the client
\* map with an open socket at the time of delivery receives exactly one envelope
\* {type, data, timestamp} for it, data being the parsed message and type being
\* task_progress on a2a:task_progress and analysis_complete on the two others,
\* and no other client receives anything; no client ever holds two envelopes of
\* one message.
C10_BroadcastOnDelivery ==
  /\ [][(bus # <<>> /\ bus' = Tail(bus))
        => LET m == Head(bus)
               wired == m.channel \in DOMAIN handlers /\ handlers[m.channel] # <<>>
           IN \A c \in ClientIds :
                IF wired /\ c \in wsClients /\ readyState[c] = "OPEN"
                  THEN received'[c] =
                         Append(received[c],
                                [type |-> TypeOfChannel(m.channel),
                                 data |-> m.message.json,
                                 timestamp |-> now])
                  ELSE received'[c] = received[c]]_vars
  /\ [](\A c \in ClientIds : \A p \in published :
          Cardinality(EnvelopesFor(c, p.channel, p.message)) <= 1)

\* two open clients each hold exactly one analysis_complete envelope carrying
\* the id of the completed task
C10_Witness ==
  /\ Cardinality(OpenClients) = 2
  /\ \E t \in DOMAIN tasks :
       /\ tasks[t].status = "completed"
       /\ \A c \in OpenClients :
            /\ Cardinality(EnvelopesFor(c, CH_TASK_COMPLETE, StringifyTask(tasks[t]))) = 1
            /\ \E k \in 1..Len(received[c]) :
                 /\ received[c][k].type = "analysis_complete"
                 /\ received[c][k].data = JSONParse(StringifyTask(tasks[t]))
                 /\ received[c][k].data.id = t

\* ----------------------------------------------- claims on subscribe, registry

\* how many entries of seq satisfy being equal to x
CountOf(seq, x) == Cardinality({i \in 1..Len(seq) : seq[i] = x})

\* the handler list of a channel, empty when the channel has none
HandlersOf(channel) == IF channel \in DOMAIN handlers THEN handlers[channel] ELSE <<>>

\* C11: whatever the interleaving of subscribe calls, subscriber.subscribe is
\* called at most once per channel; a subscribe to a channel that already has a
\* handler list only appends its handler; and each message received on a channel
\* invokes every entry of that channel's handler list exactly once, in order,
\* and no handler of another channel.
C11_SubscribeOncePerChannel ==
  /\ [](\A ch \in SubChannels : subRequests[ch] <= 1)
  /\ [][\A k \in SubIds :
          (subCalls[k].state = "none" /\ subCalls'[k].state # "none"
             /\ subCalls'[k].channel \in DOMAIN handlers)
          => /\ subRequests' = subRequests
             /\ subscribed' = subscribed
             /\ handlers' = [handlers EXCEPT ![subCalls'[k].channel] =
                               Append(@, subCalls'[k].handler)]]_vars
  /\ [][inbox' # inbox
        => LET m == inbox'[Len(inbox')]
               new == SubSeq(invoked', Len(invoked) + 1, Len(invoked'))
           IN /\ Len(invoked') = Len(invoked) + Len(HandlersOf(m.channel))
              /\ \A i \in 1..Len(new) :
                   new[i] = [handler |-> HandlersOf(m.channel)[i],
                             channel |-> m.channel, message |-> m.message]
              /\ \A h \in SubHandlers :
                   CountOf([i \in 1..Len(new) |-> new[i].handler], h)
                     = CountOf(HandlersOf(m.channel), h)]_vars

\* two calls for one channel overlapped, the channel was requested once, both
\* handlers are listed and a received message has invoked each of them once
C11_Witness ==
  \E ch \in SubChannels :
    /\ subRequests[ch] = 1
    /\ Cardinality({k \in SubIds : subCalls[k].channel = ch /\ subCalls[k].state = "done"}) >= 2
    /\ HandlersOf(ch) = <<"handler-2", "handler-1">>
    /\ \E i \in 1..Len(inbox) : inbox[i].channel = ch
    /\ \A h \in SubHandlers :
         CountOf(invoked, [handler |-> h, channel |-> ch, message |-> "text"]) = 1

\* C12: registering a card under an id makes the registry hold exactly that card
\* under the id, which is what GET /agents/:id answers with 200; the card stays
\* until the id is registered again or deregistered; deregistering removes it, and
\* from then on GET answers 404 until a registration of that id.
C12_RegistryRoundTrip ==
  [][/\ \A id \in RegisterIds :
          /\ \A body \in CardBodies :
               RegisterAgent(id, body)
               => /\ id \in DOMAIN agents'
                  /\ agents'[id] = [id |-> id, body |-> body]
          /\ DeregisterAgent(id) => id \notin DOMAIN agents'
          /\ (id \notin DOMAIN agents /\ id \in DOMAIN agents')
             => \E body \in CardBodies : RegisterAgent(id, body)
          /\ (id \in DOMAIN agents /\ id \in DOMAIN agents' /\ agents'[id] # agents[id])
             => \E body \in CardBodies : RegisterAgent(id, body)
     /\ \A id \in LookupAgentIds :
          GetAgent(id)
          => IF id \in DOMAIN agents
               THEN /\ httpResp'.code = 200
                    /\ httpResp'.body = {agents[id]}
               ELSE /\ httpResp'.code = 404
                    /\ httpResp'.body = {}]_vars

\* the custom agent was registered without an endpoint and GET has answered
\* with exactly that card
C12_Witness ==
  /\ "custom-agent" \in DOMAIN agents
  /\ agents["custom-agent"] =
       [id |-> "custom-agent", body |-> [name |-> "Custom B", endpoint |-> None]]
  /\ httpResp.op = "GET /agents/:id"
  /\ httpResp.id = "custom-agent"
  /\ httpResp.code = 200
  /\ httpResp.body = {agents["custom-agent"]}

\* C13: registering an id that is already registered leaves one entry under the
\* id, equal in full to the new payload, and leaves the registry's size, its
\* other keys and its other cards as they were; default ids included.
C13_ReRegistrationReplaces ==
  [][\A id \in RegisterIds : \A body \in CardBodies :
       (RegisterAgent(id, body) /\ id \in DOMAIN agents)
       => /\ agents'[id] = [id |-> id, body |-> body]
          /\ agents'[id].body.endpoint = body.endpoint
          /\ DOMAIN agents' = DOMAIN agents
          /\ Cardinality(DOMAIN agents') = Cardinality(DOMAIN agents)
          /\ \A other \in DOMAIN agents \ {id} : agents'[other] = agents[other]]_vars

\* a default agent was registered again with a payload that has no endpoint: the
\* registry still has six entries and the default endpoint is gone
C13_Witness ==
  /\ DOMAIN agents = DefaultAgentIds
  /\ Cardinality(DOMAIN agents) = 6
  /\ agents["legal-analyst"].body = [name |-> "Custom B", endpoint |-> None]

\* C14: the six default ids are registered from the start, and a default id
\* leaves the registry only by its own deregistration.
C14_DefaultAgentsStay ==
  /\ DefaultAgentIds \subseteq DOMAIN agents
  /\ Cardinality(DefaultAgentIds) = 6
  /\ [](\A id \in DefaultAgentIds \ RegisterIds : id \in DOMAIN agents)
  /\ [][\A id \in DefaultAgentIds :
          (id \in DOMAIN agents /\ id \notin DOMAIN agents') => DeregisterAgent(id)]_vars

\* a task addressed to a default agent has failed, another agent was registered,
\* a lookup has answered 404, and the six default ids are still registered
C14_Witness ==
  /\ DefaultAgentIds \subseteq DOMAIN agents
  /\ "custom-agent" \in DOMAIN agents
  /\ httpResp.code = 404
  /\ \E t \in DOMAIN tasks :
       tasks[t].agentId = "legal-analyst" /\ tasks[t].status = "failed"

\* C15 as claimed: for every analysisType that is not a key of the routing
\* table, routeTask returns exactly <<"legal-analyst">>, and for every
\* analysisType it returns a non-empty list of agent ids; so every supervisor
\* orchestration of such a type is routed to legal-analyst alone.
C15_UnknownTypeFallsBack ==
  \A o \in OrchIds :
    (orch[o].kind = "supervisor" /\ orch[o].analysisType \notin DOMAIN routingMap)
    => /\ routeTask(orch[o].analysisType) = <<"legal-analyst">>
       /\ orch[o].keys = <<"legal-analyst">>
       /\ orchResp[o].code # 500

\* C16: each task causes at most one backend call; a failed task carries a
\* non-empty error, and no later step changes the task or calls the backend
\* for it again.
C16_NoRetry ==
  /\ [](\A t \in TaskIds : backendCalls[t] <= 1)
  /\ [](\A t \in DOMAIN tasks :
          tasks[t].status = "failed"
          => /\ Len(tasks[t].error) > 0
             /\ \A i \in 1..Len(tasks[t].error) : tasks[t].error[i] \notin {"", None}
             /\ taskPc[t] = "settled")
  /\ [][\A t \in DOMAIN tasks :
          tasks[t].status = "failed"
          => /\ t \in DOMAIN tasks'
             /\ tasks'[t] = tasks[t]
             /\ backendCalls'[t] = backendCalls[t]
             /\ reply'[t] = reply[t]
             /\ taskPc'[t] = "settled"]_vars
  /\ [][\A t \in TaskIds : backendCalls'[t] >= backendCalls[t]]_vars

\* a task failed on the backend's reported error after its one call, and the
\* submit response has been sent
C16_Witness ==
  \E t \in DOMAIN tasks :
    /\ tasks[t].status = "failed"
    /\ reply[t].kind = "fail"
    /\ reply[t].bodyError # None
    /\ tasks[t].error = <<reply[t].bodyError>>
    /\ backendCalls[t] = 1
    /\ submitResp[t] # None

\* C17: a stored task is never removed: every step keeps every stored task under
\* its id, GET /tasks/:id of a stored id answers 200 with the task and never
\* 404, and GET /tasks answers with every stored task; this holds whatever the
\* task's outcome and whether or not its agent is still registered.
C17_TasksNeverDeleted ==
  [][/\ DOMAIN tasks \subseteq DOMAIN tasks'
     /\ \A t \in DOMAIN tasks : tasks'[t].id = tasks[t].id
     /\ \A id \in LookupTaskIds :
          (GetTask(id) /\ id \in DOMAIN tasks)
          => /\ httpResp'.code = 200
             /\ httpResp'.body = {tasks[id]}
     /\ ListTasks
        => /\ httpResp'.code = 200
           /\ \A t \in DOMAIN tasks : tasks[t] \in httpResp'.body]_vars

\* a task addressed to legal-analyst has settled, legal-analyst has been
\* deregistered, and GET /tasks/:id has answered 200 with the task
C17_Witness ==
  \E t \in DOMAIN tasks :
    /\ tasks[t].agentId = "legal-analyst"
    /\ taskPc[t] = "settled"
    /\ "legal-analyst" \notin DOMAIN agents
    /\ httpResp.op = "GET /tasks/:id"
    /\ httpResp.code = 200
    /\ httpResp.body = {tasks[t]}

\* C18: GET /agents/:id, DELETE /agents/:id and GET /tasks/:id with an id that
\* is not stored answer 404, and they, like every get and list, leave the
\* registry and the task store exactly as they were.
C18_NotFoundHasNoEffect ==
  [][/\ \A id \in LookupAgentIds :
          /\ (GetAgent(id) /\ id \notin DOMAIN agents) => httpResp'.code = 404
          /\ GetAgent(id) => (agents' = agents /\ tasks' = tasks)
          /\ DeregisterAgentNotFound(id)
             => (httpResp'.code = 404 /\ agents' = agents /\ tasks' = tasks)
     /\ \A id \in LookupTaskIds :
          /\ (GetTask(id) /\ id \notin DOMAIN tasks) => httpResp'.code = 404
          /\ GetTask(id) => (agents' = agents /\ tasks' = tasks)
     /\ ListAgents => (agents' = agents /\ tasks' = tasks)
     /\ ListTasks => (agents' = agents /\ tasks' = tasks)
     /\ httpResp' # httpResp => (agents' = agents /\ tasks' = tasks)]_vars

\* with a task and a custom agent stored, deregistering an unknown id has
\* answered 404 and both are still stored
C18_Witness ==
  /\ httpResp.op = "DELETE /agents/:id"
  /\ httpResp.id = "nonexistent-agent"
  /\ httpResp.code = 404
  /\ "custom-agent" \in DOMAIN agents
  /\ DefaultAgentIds \subseteq DOMAIN agents
  /\ \E t \in DOMAIN tasks : taskPc[t] = "settled"

\* C19: POST /messages takes any fromAgent and toAgent, registered or not,
\* gives the envelope a fresh id and the current time in place of whatever the
\* caller supplied, keeps the caller's other fields, attempts one publish on the
\* messages channel, and answers 201 with the stamped envelope whether the
\* publish succeeded or not; the registry and the task store stay as they were.
C19_MessageStamped ==
  /\ [][\A m \in MsgIds :
          /\ \A body \in MessageBodies :
               SendMessage(m, body)
               => /\ msgs'[m].envelope.id = m
                  /\ \A j \in MsgIds \ {m} : msgs[j].envelope.id # m
                  /\ msgs'[m].envelope.timestamp = now
                  /\ msgs'[m].envelope.fromAgent = body.fromAgent
                  /\ msgs'[m].envelope.toAgent = body.toAgent
                  /\ msgs'[m].envelope.content = body.content
                  /\ msgs'[m].pub = "pending"
                  /\ agents' = agents /\ tasks' = tasks
          /\ \A ok \in BOOLEAN :
               MessagePublishSettle(m, ok)
               => /\ msgs'[m].state = "returned"
                  /\ msgs'[m].code = 201
                  /\ msgs'[m].envelope = msgs[m].envelope
                  /\ msgs'[m].pub = (IF ok THEN "ok" ELSE "failed")
                  /\ (ok => [channel |-> CH_MESSAGES,
                             message |-> StringifyMessage(msgs[m].envelope),
                             audience |-> OpenClients] \in published')
                  /\ (~ok => published' = published)
                  /\ agents' = agents /\ tasks' = tasks
          /\ msgs[m].pub \in {"ok", "failed"} => msgs'[m] = msgs[m]
          /\ msgs'[m].pub # msgs[m].pub
             => \/ (msgs[m].pub = None /\ msgs'[m].pub = "pending")
                \/ (msgs[m].pub = "pending" /\ msgs'[m].pub \in {"ok", "failed"})]_vars
  /\ [](\A m \in MsgIds : msgs[m].state \in {"none", "publishing", "returned"})

\* a message between two unregistered agents that supplied its own id and
\* timestamp was answered 201 with a fresh id although its publish failed
C19_Witness ==
  \E m \in MsgIds :
    /\ msgs[m].state = "returned"
    /\ msgs[m].code = 201
    /\ msgs[m].pub = "failed"
    /\ msgs[m].envelope.fromAgent = "nonexistent-agent"
    /\ msgs[m].envelope.fromAgent \notin DOMAIN agents
    /\ msgs[m].envelope.id = m
    /\ msgs[m].envelope.timestamp = 1
    /\ \E t \in DOMAIN tasks : taskPc[t] = "settled"

\* C20 as claimed: in the response of every orchestration, of the supervisor as
\* of POST orchestrate, toolsUsed holds each tool name at most once.
C20_ToolsUsedDistinct ==
  \A o \in OrchIds :
    (orchPc[o] = "returned" /\ orchResp[o].code = 200)
    => NoDuplicates(orchResp[o].body.toolsUsed)

\* ------------------------------------------- claims on orchestration events

CompletionEvent(o) ==
  [channel |-> CH_ORCH_COMPLETE,
   message |-> [json |-> [taskId |-> o,
                          processingTime |-> orchResult[o].processingTime,
                          agentCount |-> Len(orch[o].keys)]],
   audience |-> OpenClients]

\* C21: a supervisor orchestration attempts its cache write once, after every
\* per-agent call has settled, under cache:orchestration:<its task id> with a
\* TTL of 3600 and with its result as the value; the entry, once written, and
\* the result, once built, never change; the completion publish is attempted
\* once, after the cache attempt has settled, and carries the task id, the
\* processing time and the number of routed agents.
C21_CacheThenPublishOnce ==
  /\ [](\A o \in OrchIds :
          /\ cacheTry[o] # None
             => /\ orch[o].kind = "supervisor"
                /\ \A i \in 1..Len(calls[o]) : calls[o][i].state = "settled"
                /\ orchResult[o].taskId = o
          /\ orchPub[o] # None => cacheTry[o] \in {"ok", "failed"}
          /\ (orchPc[o] = "returned" /\ orch[o].kind = "supervisor" /\ orch[o].keys # <<>>)
             => (cacheTry[o] \in {"ok", "failed"} /\ orchPub[o] \in {"ok", "failed"})
          /\ <<"cache:", "orchestration:", o>> \in DOMAIN cache <=> cacheTry[o] = "ok"
          /\ cacheTry[o] = "ok"
             => cache[<<"cache:", "orchestration:", o>>] =
                  [value |-> orchResult[o], ttl |-> 3600])
  /\ [](DOMAIN cache \subseteq {<<"cache:", "orchestration:", o>> : o \in OrchIds})
  /\ [][\A o \in OrchIds :
          /\ cacheTry'[o] # cacheTry[o]
             => \/ (cacheTry[o] = None /\ cacheTry'[o] = "pending" /\ orchPub[o] = None)
                \/ (cacheTry[o] = "pending" /\ cacheTry'[o] \in {"ok", "failed"})
          /\ orchPub'[o] # orchPub[o]
             => \/ (orchPub[o] = None /\ orchPub'[o] = "pending")
                \/ (orchPub[o] = "pending" /\ orchPub'[o] \in {"ok", "failed"})
          /\ (orchPub[o] = "pending" /\ orchPub'[o] = "ok")
             => (CompletionEvent(o) \in published' /\ Len(orch[o].keys) = Len(calls[o]))
          /\ (orchPub[o] = "pending" /\ orchPub'[o] = "failed") => published' = published
          /\ orchResult[o] # NoResult => orchResult'[o] = orchResult[o]
          /\ <<"cache:", "orchestration:", o>> \in DOMAIN cache
             => /\ <<"cache:", "orchestration:", o>> \in DOMAIN cache'
                /\ cache'[<<"cache:", "orchestration:", o>>] =
                     cache[<<"cache:", "orchestration:", o>>]]_vars

\* a two-agent orchestration has returned: its result is cached under its id
\* for an hour and its completion event counts two agents
C21_Witness ==
  \E o \in OrchIds :
    /\ Returned(o)
    /\ Len(orch[o].keys) = 2
    /\ cacheTry[o] = "ok"
    /\ orchPub[o] = "ok"
    /\ cache[CacheKey(o)] = [value |-> orchResp[o].body, ttl |-> CACHE_TTL]
    /\ \E e \in published :
         /\ e.channel = CH_ORCH_COMPLETE
         /\ e.message.json.taskId = o
         /\ e.message.json.agentCount = 2

\* C22: in the narrative of a returned supervisor orchestration the header's
\* total is the number of entries of results and equals successful + failed,
\* there is exactly one section per agent whose call succeeded and none for
\* another agent, and the Failed Agents section is present exactly when at least
\* one call failed.
C22_NarrativeCounts ==
  \A o \in OrchIds :
    Returned(o) =>
      LET body == orchResp[o].body
          n == body.aggregatedAnalysis
          sectionIds == [i \in 1..Len(n.sections) |-> n.sections[i].agentId]
      IN /\ n.total = Len(body.results)
         /\ n.total = n.successful + n.failed
         /\ n.successful = Cardinality(OkCalls(o))
         /\ n.failed = Cardinality(FailedCalls(o))
         /\ Len(n.sections) = Cardinality(OkCalls(o))
         /\ NoDuplicates(sectionIds)
         /\ SeqRange(sectionIds) = {orch[o].keys[i] : i \in OkCalls(o)}
         /\ n.hasFailedSection <=> (FailedCalls(o) # {})
         /\ (~n.hasFailedSection) => n.failedSection = <<>>

\* one of two routed agents failed: the header reads 2 (1 successful, 1 failed),
\* there is one agent section and the Failed Agents section is there
C22_Witness ==
  \E o \in OrchIds :
    /\ Returned(o)
    /\ orchResp[o].body.aggregatedAnalysis.total = 2
    /\ orchResp[o].body.aggregatedAnalysis.successful = 1
    /\ orchResp[o].body.aggregatedAnalysis.failed = 1
    /\ Len(orchResp[o].body.aggregatedAnalysis.sections) = 1
    /\ orchResp[o].body.aggregatedAnalysis.hasFailedSection

\* ------------------------------------------- claims on the real-time clients

\* C23 as claimed: an inbound subscribe_task or ping is answered with one
\* envelope to the client that sent it, a pong for a ping, and nothing is sent
\* to another client; an inbound message of another kind sends nothing and
\* changes neither the client map nor any socket.
C23_InboundAcknowledged ==
  [][\A c \in ClientIds : \A frame \in InboundFrames :
       WsMessage(c, frame)
       => /\ \A d \in ClientIds \ {c} : received'[d] = received[d]
          /\ wsClients' = wsClients
          /\ readyState' = readyState
          /\ IF frame.json /\ frame.type \in {"subscribe_task", "ping"}
               THEN /\ Len(received'[c]) = Len(received[c]) + 1
                    /\ frame.type = "ping"
                       => received'[c][Len(received'[c])] = [type |-> "pong", timestamp |-> now]
               ELSE received'[c] = received[c]]_vars

\* C30: the client map holds only clients that connected and whose 'close' or
\* 'error' has not fired; a client that has left the map never returns to it and
\* is sent nothing more; an envelope is sent only on connect or to a client of
\* the map whose socket is OPEN; and a broadcast leaves in the map exactly the
\* clients whose socket is OPEN.
C30_NoBroadcastAfterClose ==
  /\ [](\A c \in wsClients : readyState[c] \in {"OPEN", "CLOSING"})
  /\ [][\A c \in ClientIds :
          /\ (WsClose(c) \/ WsError(c)) => c \notin wsClients'
          /\ (c \notin wsClients /\ readyState[c] # "none")
             => (c \notin wsClients' /\ received'[c] = received[c])
          /\ readyState[c] \in {"CLOSING", "CLOSED"} => readyState'[c] # "OPEN"
          /\ received'[c] # received[c]
             => \/ (readyState[c] = "none" /\ readyState'[c] = "OPEN")
                \/ (c \in wsClients /\ readyState[c] = "OPEN")]_vars
  /\ [][(Deliver /\ Head(bus).channel \in DOMAIN handlers
                 /\ handlers[Head(bus).channel] # <<>>)
        => wsClients' = {c \in wsClients : readyState[c] = "OPEN"}]_vars

\* the first client has closed and holds only its welcome, while the client
\* that connected after it is open and was sent a task completion
C30_Witness ==
  /\ readyState[1] = "CLOSED"
  /\ 1 \notin wsClients
  /\ Len(received[1]) = 1
  /\ readyState[2] = "OPEN"
  /\ 2 \in wsClients
  /\ Len(received[2]) = 2
  /\ received[2][2].type = "analysis_complete"

\* ------------------------------------------- claims on failed subscriptions

\* the calls for a channel and handler that pushed their handler
PushedCalls(ch, h) ==
  {j \in SubIds : subCalls[j] = [state |-> "done", channel |-> ch, handler |-> h]}

\* C24: when subscriber.subscribe is rejected for the first subscribe of a
\* channel, the channel keeps its handler list without that call's handler
\* (empty when no other call came meanwhile) and the transport subscription is
\* not established; no later subscribe asks the transport again, and the later
\* calls' handlers are listed all the same.
C24_FailedSubscribeLeavesChannel ==
  /\ [][\A k \in SubIds :
          SubscribeSettle(k, FALSE)
          => /\ subCalls[k].channel \in DOMAIN handlers'
             /\ handlers' = handlers
             /\ subscribed' = subscribed
             /\ subCalls[k].channel \notin subscribed'
             /\ handlers[subCalls[k].channel] = <<>>
                => handlers'[subCalls[k].channel] = <<>>]_vars
  /\ [](\A k \in SubIds :
          subCalls[k].state = "failed"
          => /\ subCalls[k].channel \in DOMAIN handlers
             /\ subCalls[k].channel \notin subscribed
             /\ subRequests[subCalls[k].channel] = 1
             /\ \A h \in SubHandlers :
                  CountOf(handlers[subCalls[k].channel], h)
                    = Cardinality(PushedCalls(subCalls[k].channel, h)))

\* the first subscribe of a channel was rejected and its handler is not listed;
\* two later subscribes listed theirs, with the transport asked once and the
\* subscription never established
C24_Witness ==
  \E ch \in SubChannels :
    /\ subCalls[1] = [state |-> "failed", channel |-> ch, handler |-> "handler-1"]
    /\ subCalls[2] = [state |-> "done", channel |-> ch, handler |-> "handler-2"]
    /\ subCalls[3] = [state |-> "done", channel |-> ch, handler |-> "handler-2"]
    /\ handlers[ch] = <<"handler-2", "handler-2">>
    /\ ch \notin subscribed
    /\ subRequests[ch] = 1

\* ------------------------------------------- claims on completion events

\* the accepted publishes on the task-completion channel that carry task t
CompletionsOf(t) ==
  {p \in published : p.channel = CH_TASK_COMPLETE /\ p.message.json.id = t}

\* C25: the task-completion publish is attempted at most once per task, and
\* only when the task is completed with completedAt set; every message accepted
\* on the task-completion channel carries status completed; a failed task has no
\* completedAt, no publish attempt and no message on the channel.
C25_CompletionEventOnlyOnSuccess ==
  /\ [](\A t \in DOMAIN tasks :
          /\ taskPub[t] # None
             => (tasks[t].status = "completed" /\ tasks[t].completedAt # -1)
          /\ tasks[t].status = "failed"
             => /\ tasks[t].completedAt = -1
                /\ taskPub[t] = None
                /\ CompletionsOf(t) = {}
          /\ Cardinality(CompletionsOf(t)) <= 1
          /\ CompletionsOf(t) # {} => taskPub[t] = "ok")
  /\ [](\A p \in published :
          p.channel = CH_TASK_COMPLETE => p.message.json.status = "completed")
  /\ [](\A i \in 1..Len(bus) :
          bus[i].channel = CH_TASK_COMPLETE => bus[i].message.json.status = "completed")
  /\ [][\A t \in TaskIds :
          taskPub'[t] # taskPub[t]
          => \/ (taskPub[t] = None /\ taskPub'[t] = "pending"
                   /\ tasks'[t].status = "completed")
             \/ (taskPub[t] = "pending" /\ taskPub'[t] \in {"ok", "failed"}
                   /\ tasks[t].status = "completed")]_vars

\* a task whose backend call was rejected has failed: it has no completedAt and
\* nothing was published for it
C25_Witness ==
  \E t \in DOMAIN tasks :
    /\ tasks[t].status = "failed"
    /\ backendCalls[t] = 1
    /\ reply[t].kind = "fail"
    /\ tasks[t].completedAt = -1
    /\ taskPub[t] = None
    /\ published = {}
    /\ bus = <<>>
    /\ listening

\* the accepted task-progress publishes of orchestration o for an agent
ProgressEventsOf(o, agentId) ==
  {p \in published :
     /\ p.channel = CH_TASK_PROGRESS
     /\ p.message.json.taskId = o
     /\ p.message.json.agentId = agentId}

\* C26: in a supervisor orchestration the task-progress publish of a routed
\* agent is attempted exactly when that agent's backend call succeeded, once,
\* and never for a failed call; an accepted one carries the task id, the agent
\* id and status completed; and every progress publish has settled before the
\* orchestration-completion publish is attempted.
C26_ProgressOnlyOnSuccess ==
  /\ [](\A o \in OrchIds :
          (orch[o].kind = "supervisor" /\ orch[o].keys # <<>>) =>
            \A i \in 1..Len(calls[o]) :
              /\ calls[o][i].progress # None => calls[o][i].reply.kind = "ok"
              /\ calls[o][i].reply.kind = "fail" => calls[o][i].progress = None
              /\ (calls[o][i].state = "settled" /\ calls[o][i].reply.kind = "ok")
                 => calls[o][i].progress \in {"ok", "failed"}
              /\ ProgressEventsOf(o, orch[o].keys[i]) # {}
                 => (calls[o][i].reply.kind = "ok" /\ calls[o][i].progress = "ok")
              /\ Cardinality(ProgressEventsOf(o, orch[o].keys[i])) <= 1
              /\ \A p \in ProgressEventsOf(o, orch[o].keys[i]) :
                   p.message.json.status = "completed"
              /\ orchPub[o] # None => calls[o][i].progress \in {None, "ok", "failed"})
  /\ [][\A o \in OrchIds : \A i \in 1..Len(calls[o]) :
          (Len(calls'[o]) = Len(calls[o]) /\ calls'[o][i].progress # calls[o][i].progress)
          => \/ (calls[o][i].progress = None /\ calls'[o][i].progress = "pending"
                   /\ orchPub[o] = None)
             \/ (calls[o][i].progress = "pending"
                   /\ calls'[o][i].progress \in {"ok", "failed"}
                   /\ orchPub[o] = None
                   /\ (calls'[o][i].progress = "ok"
                         => ProgressEventsOf(o, orch[o].keys[i])' # {}))]_vars

\* of two routed agents one succeeded and one failed: there is a progress event
\* for the first, none for the second, and the completion was published after
C26_Witness ==
  \E o \in OrchIds :
    /\ Returned(o)
    /\ Len(calls[o]) = 2
    /\ calls[o][1].reply.kind = "ok"
    /\ calls[o][1].progress = "ok"
    /\ calls[o][2].reply.kind = "fail"
    /\ calls[o][2].progress = None
    /\ Cardinality(ProgressEventsOf(o, orch[o].keys[1])) = 1
    /\ ProgressEventsOf(o, orch[o].keys[2]) = {}
    /\ orchPub[o] = "ok"

\* ------------------------------------------- claims on ordering and registry

\* the keys of a results object, in key order
KeySeq(obj) == [i \in 1..Len(obj) |-> obj[i].key]

\* C27: the agents list of a supervisor result is the routing-table list in
\* routing order; each call that resumes adds its agent's key at the end of
\* results, so the key order is the order in which the calls settled; and the
\* agent sections and the failed-agent lines of the narrative follow the key
\* order of results, not the routing order.
C27_OrderFollowsSettling ==
  /\ [](\A o \in OrchIds :
          Returned(o) =>
            LET body == orchResp[o].body
                okKeys == KeySeq(SelectSeq(body.results, HasNoError))
                failedKeys == KeySeq(SelectSeq(body.results, HasError))
            IN /\ body.agents = orch[o].keys
               /\ orch[o].analysisType \in DOMAIN routingMap
                  => body.agents = routingMap[orch[o].analysisType]
               /\ [i \in 1..Len(body.aggregatedAnalysis.sections) |->
                     body.aggregatedAnalysis.sections[i].agentId] = okKeys
               /\ [i \in 1..Len(body.aggregatedAnalysis.failedSection) |->
                     body.aggregatedAnalysis.failedSection[i].agentId] = failedKeys)
  /\ [][\A o \in OrchIds : \A i \in 1..Len(calls[o]) :
          (orch[o].kind = "supervisor" /\ Len(calls'[o]) = Len(calls[o])
             /\ calls[o][i].state = "inflight" /\ calls'[o][i].state # "inflight")
          => /\ Len(results'[o]) = Len(results[o]) + 1
             /\ SubSeq(results'[o], 1, Len(results[o])) = results[o]
             /\ results'[o][Len(results'[o])].key = orch[o].keys[i]]_vars

\* both agents of a risk assessment succeeded, the second routed agent settled
\* first: agents is in routing order, results and the sections are reversed
C27_Witness ==
  \E o \in OrchIds :
    /\ Returned(o)
    /\ orch[o].analysisType = "risk_assessment"
    /\ OkCalls(o) = {1, 2}
    /\ orchResp[o].body.agents = <<"risk-assessor", "legal-analyst">>
    /\ KeySeq(orchResp[o].body.results) = <<"legal-analyst", "risk-assessor">>
    /\ orchResp[o].body.aggregatedAnalysis.sections[1].agentId = "legal-analyst"
    /\ orchResp[o].body.aggregatedAnalysis.sections[2].agentId = "risk-assessor"

\* C28: the agent of a task is looked up once, in the step that follows the
\* store of the task with nothing in between; what that lookup found decides
\* between agent-not-found and the backend call, and from then on the task's
\* fate depends on the backend's reply alone: steps of the registry never touch
\* a task, a call that was issued ends by its reply whether or not the agent is
\* still registered, and a task that threw agent-not-found makes no backend call
\* and fails even when the agent is registered afterwards.
C28_SingleLookupAtSubmit ==
  /\ [](\A t \in DOMAIN tasks : taskPc[t] = "created" => running = t)
  /\ [][\A t \in DOMAIN tasks :
          /\ (taskPc[t] = "created" /\ taskPc'[t] # "created")
             => IF tasks[t].agentId \in DOMAIN agents
                  THEN thrown'[t] # <<"Agent not found: ", tasks[t].agentId>>
                  ELSE /\ thrown'[t] = <<"Agent not found: ", tasks[t].agentId>>
                       /\ backendCalls'[t] = 0
          /\ (taskPc[t] = "awaiting_backend" /\ taskPc'[t] # "awaiting_backend")
             => IF reply[t].kind = "ok"
                  THEN /\ tasks'[t].status = "completed"
                       /\ tasks'[t].result = reply[t].data
                  ELSE /\ taskPc'[t] = "throwing"
                       /\ thrown'[t] # <<"Agent not found: ", tasks[t].agentId>>
          /\ agents' # agents
             => /\ tasks' = tasks
                /\ taskPc' = taskPc
                /\ thrown' = thrown
                /\ reply' = reply
                /\ backendCalls' = backendCalls
          /\ thrown[t] = <<"Agent not found: ", tasks[t].agentId>>
             => /\ thrown'[t] = thrown[t]
                /\ backendCalls'[t] = 0
                /\ tasks'[t].status \in {"in_progress", "failed"}
                /\ taskPc'[t] \in {"throwing", "settled"}]_vars
  /\ [](\A t \in DOMAIN tasks :
          taskPc[t] = "settled"
          => IF thrown[t] # <<>>
               THEN tasks[t].status = "failed" /\ tasks[t].error = thrown[t]
               ELSE tasks[t].status = "completed" /\ tasks[t].result = reply[t].data)

\* a task for the custom agent failed with agent not found before the agent
\* was registered; the agent is registered now and the task is still failed
C28_Witness ==
  \E t \in DOMAIN tasks :
    /\ tasks[t].agentId = "custom-agent"
    /\ tasks[t].status = "failed"
    /\ tasks[t].error = <<"Agent not found: ", "custom-agent">>
    /\ backendCalls[t] = 0
    /\ "custom-agent" \in DOMAIN agents

\* C29: a supervisor orchestration is the same whatever the registry holds: the
\* agents consulted are the routing list of the analysis type, one backend call
\* is issued per routed agent, every slot of the result is what that agent's call
\* returned, also when the routed agents are not registered; no step of an
\* orchestration changes the registry and no step of the registry changes an
\* orchestration.
C29_OrchestrateIgnoresRegistry ==
  /\ [][\A o \in OrchIds :
          (orchPc[o] = "none" /\ orchPc'[o] # "none")
          => /\ orch'[o].keys =
                  (IF orch'[o].analysisType \in DOMAIN routingMap
                     THEN routingMap[orch'[o].analysisType]
                     ELSE <<"legal-analyst">>)
             /\ Len(calls'[o]) = Len(orch'[o].keys)
             /\ orchPc'[o] = "launching"]_vars
  /\ [][(orchVars' # orchVars => agents' = agents)
        /\ (agents' # agents => orchVars' = orchVars)]_vars
  /\ [](\A o \in OrchIds :
          orchPc[o] = "returned"
          => /\ orchResp[o].code = 200
             /\ orchResp[o].body.agents = orch[o].keys
             /\ Len(orchResp[o].body.results) = Len(orch[o].keys)
             /\ \A i \in 1..Len(calls[o]) :
                  LET slot == orchResp[o].body.results[
                                ObjectGet(orchResp[o].body.results, orch[o].keys[i])].value
                  IN IF calls[o][i].reply.kind = "ok"
                       THEN /\ slot.analysis = calls[o][i].reply.analysis
                            /\ slot.result = calls[o][i].reply.result
                            /\ slot.error = None
                       ELSE slot.error = calls[o][i].reply.message)

\* a risk assessment has answered 200 with both agents' analyses while neither
\* risk-assessor nor legal-analyst is registered
C29_Witness ==
  \E o \in OrchIds :
    /\ Returned(o)
    /\ orch[o].keys = <<"risk-assessor", "legal-analyst">>
    /\ "risk-assessor" \notin DOMAIN agents
    /\ "legal-analyst" \notin DOMAIN agents
    /\ OkCalls(o) = {1, 2}
    /\ orchResp[o].body.aggregatedAnalysis.successful = 2

====
